---------------------------- MODULE Spec2Model ----------------------------
(***************************************************************************)
(* A model of the match-history scraper: the SQLite store of              *)
(* storage/database.py (insert_match, upsert_match and its                *)
(* merge-on-conflict policy), the season helpers of utils/season_utils.py,*)
(* the source adapters (statto, transfermarkt, football-data, 11v11) and   *)
(* the coordinator of main.py (ScrapeController.scrape_season /            *)
(* scrape_range).  The specifications: Spec (the store), SpecQueries (the  *)
(* store's queries), SpecCoord (the coordinator), SpecRecover (a range     *)
(* scrape killed and run again), SpecSeason (the season helpers),          *)
(* SpecAdapters (each adapter's scrape_season on its own), SpecSections    *)
(* (the competition rows of a statto page), SpecNormalize (the adapters'   *)
(* competition tables) and SpecScores (goal counts with a sign).           *)
(*                                                                         *)
(* Conventions.  A Python Optional / an SQL nullable column holds None     *)
(* (the empty tuple) or Some(x) (the one-element tuple <<x>>).  A text (a  *)
(* Python str, an SQL TEXT) is the sequence of its characters, each a      *)
(* one-character string, so that formatting, parsing and matching are      *)
(* computed on the characters; the source tags and the venue codes, which  *)
(* the code only ever compares whole, are strings.                         *)
(***************************************************************************)
EXTENDS Integers, Sequences, FiniteSets, TLC

VARIABLES
    matches,    \* the rows of table "matches", in rowid order
    seq,        \* sqlite_sequence.seq of the AUTOINCREMENT key
    last,       \* the last store call: its operation, argument and outcome
    pc,         \* where the coordinator is
    request,    \* the call in progress: scrape_season or scrape_range and its arguments
    year,       \* scrape_range's loop variable; scrape_season's start_year
    total,      \* scrape_range's total
    scrapers_to_try, \* scrape_season: the scrapers the for loop has yet to reach
    pending,    \* scrape_season: the matches the inner for loop has yet to reach
    count,      \* scrape_season's count
    result,     \* what the call returned
    tried,      \* log: the scrapers invoked for this season, each with whether its fetch succeeded and what it gave
    upserted,   \* log: the matches upsert_match has taken for this season
    before,     \* log: the table when this season's scrape_season was entered
    attempted,  \* log: the years scrape_season was called for
    counts,     \* log: what those calls returned to scrape_range
    calc        \* the last call of a function of the utilities, of a scraper or of a query: its argument and result

storeVars == <<matches, seq, last>>
coordVars == <<pc, request, year, total, scrapers_to_try, pending, count, result,
               tried, upserted, before, attempted, counts>>
vars == <<matches, seq, last, pc, request, year, total, scrapers_to_try, pending,
          count, result, tried, upserted, before, attempted, counts, calc>>

---------------------------------------------------------------------------
(* Bounds of the model *)

\* store calls that reach the table are cut off once the key counter is here
MaxSeq == 4

\* the ranges requested are of two seasons and more, up to MaxSpan + 1
MaxSpan == 1

---------------------------------------------------------------------------
(* Optional values *)

None == <<>>
Some(x) == <<x>>
IsNone(o) == o = <<>>
COALESCE(x, y) == IF x # None THEN x ELSE y

---------------------------------------------------------------------------
(* Numbers as text *)

Digit(k) ==
    CASE k = 0 -> "0" [] k = 1 -> "1" [] k = 2 -> "2" [] k = 3 -> "3"
      [] k = 4 -> "4" [] k = 5 -> "5" [] k = 6 -> "6" [] k = 7 -> "7"
      [] k = 8 -> "8" [] k = 9 -> "9"

RECURSIVE NatStr(_)
\* str(n) for n >= 0
NatStr(n) == IF n < 10 THEN <<Digit(n)>> ELSE NatStr(n \div 10) \o <<Digit(n % 10)>>

\* str(n), the f-string rendering of an int
IntStr(n) == IF n < 0 THEN <<"-">> \o NatStr(0 - n) ELSE NatStr(n)

RECURSIVE ZeroPad(_, _)
\* n >= 0 rendered in at least w digits
ZeroPad(n, w) == IF w <= 1 THEN NatStr(n)
                 ELSE IF Len(NatStr(n)) >= w THEN NatStr(n)
                 ELSE <<"0">> \o ZeroPad(n, w - 1)

DigitVal(c) ==
    CASE c = "0" -> 0 [] c = "1" -> 1 [] c = "2" -> 2 [] c = "3" -> 3
      [] c = "4" -> 4 [] c = "5" -> 5 [] c = "6" -> 6 [] c = "7" -> 7
      [] c = "8" -> 8 [] c = "9" -> 9

RECURSIVE DigitsVal(_)
DigitsVal(s) == IF s = <<>> THEN 0
                ELSE 10 * DigitsVal(SubSeq(s, 1, Len(s) - 1)) + DigitVal(s[Len(s)])

---------------------------------------------------------------------------
(* Texts: str methods and the regular expressions of the adapters *)

Digits == {"0", "1", "2", "3", "4", "5", "6", "7", "8", "9"}
Uppers == <<"A", "B", "C", "D", "E", "F", "G", "H", "I", "J", "K", "L", "M", "N", "O", "P", "Q", "R", "S", "T", "U", "V", "W", "X", "Y", "Z">>
Lowers == <<"a", "b", "c", "d", "e", "f", "g", "h", "i", "j", "k", "l", "m", "n", "o", "p", "q", "r", "s", "t", "u", "v", "w", "x", "y", "z">>

\* one character of str.lower() / str.upper()
LowerChar(c) == IF \E i \in DOMAIN Uppers : Uppers[i] = c
                THEN Lowers[CHOOSE i \in DOMAIN Uppers : Uppers[i] = c] ELSE c
UpperChar(c) == IF \E i \in DOMAIN Lowers : Lowers[i] = c
                THEN Uppers[CHOOSE i \in DOMAIN Lowers : Lowers[i] = c] ELSE c

\* str.lower(), str.upper()
lower(t) == [i \in DOMAIN t |-> LowerChar(t[i])]
upper(t) == [i \in DOMAIN t |-> UpperChar(t[i])]

IsSpace(c) == c = " "

RECURSIVE lstrip(_)
lstrip(t) == IF t # <<>> /\ IsSpace(Head(t)) THEN lstrip(Tail(t)) ELSE t

RECURSIVE rstrip(_)
rstrip(t) == IF t # <<>> /\ IsSpace(t[Len(t)]) THEN rstrip(SubSeq(t, 1, Len(t) - 1)) ELSE t

\* str.strip()
strip(t) == rstrip(lstrip(t))

\* str.isdigit()
isdigit(t) == t # <<>> /\ \A i \in DOMAIN t : t[i] \in Digits

\* t.startswith(p)
StartsWith(t, p) == Len(p) <= Len(t) /\ SubSeq(t, 1, Len(p)) = p

\* p in t
Contains(t, p) == \E i \in 0..(Len(t) - Len(p)) : SubSeq(t, i + 1, i + Len(p)) = p

\* the text after its first n characters
Drop(t, n) == SubSeq(t, n + 1, Len(t))

\* the length of the run of digits t starts with (what \d+ or \d* takes)
RECURSIVE DigitRun(_)
DigitRun(t) == IF t # <<>> /\ Head(t) \in Digits THEN 1 + DigitRun(Tail(t)) ELSE 0

\* the length of the run of spaces t starts with (what \s* takes)
RECURSIVE SpaceRun(_)
SpaceRun(t) == IF t # <<>> /\ IsSpace(Head(t)) THEN 1 + SpaceRun(Tail(t)) ELSE 0

\* int(t) raises no ValueError: optional blanks, an optional sign, digits
IntOk(t) ==
    LET u == strip(t)
        body == IF u # <<>> /\ Head(u) \in {"-", "+"} THEN Tail(u) ELSE u IN
    isdigit(body)

\* int(t)
IntVal(t) ==
    LET u == strip(t) IN
    IF u # <<>> /\ Head(u) = "-" THEN 0 - DigitsVal(Tail(u))
    ELSE IF u # <<>> /\ Head(u) = "+" THEN DigitsVal(Tail(u))
    ELSE DigitsVal(u)

---------------------------------------------------------------------------
(* Dates: a date is <<year, month, day>> *)

\* date.isoformat(): YYYY-MM-DD
isoformat(d) == ZeroPad(d[1], 4) \o <<"-">> \o ZeroPad(d[2], 2) \o <<"-">> \o ZeroPad(d[3], 2)

\* date.fromisoformat() of a text isoformat wrote
fromisoformat(t) ==
    <<DigitsVal(SubSeq(t, 1, 4)), DigitsVal(SubSeq(t, 6, 7)), DigitsVal(SubSeq(t, 9, 10))>>

IsLeap(y) == (y % 4 = 0 /\ y % 100 # 0) \/ y % 400 = 0

DaysInMonth(y, m) ==
    IF m = 2 THEN (IF IsLeap(y) THEN 29 ELSE 28)
    ELSE IF m \in {4, 6, 9, 11} THEN 30 ELSE 31

\* the year %y stands for (69..99 in 1969..1999, 00..68 in 2000..2068)
TwoDigitYear(yy) == IF yy >= 69 THEN 1900 + yy ELSE 2000 + yy

\* datetime.strptime(t, fmt).date() for the formats %d<sep>%m<sep>%Y (ylen 4)
\* and %d<sep>%m<sep>%y (ylen 2): None where strptime raises ValueError
strptime(t, sep, ylen) ==
    LET n1 == DigitRun(t)
        r1 == Drop(t, n1)
        n2 == IF r1 = <<>> THEN 0 ELSE DigitRun(Tail(r1))
        r2 == IF r1 = <<>> THEN <<>> ELSE Drop(Tail(r1), n2)
        yt == IF r2 = <<>> THEN <<>> ELSE Tail(r2)
        d == DigitsVal(SubSeq(t, 1, n1))
        m == IF r1 = <<>> THEN 0 ELSE DigitsVal(SubSeq(Tail(r1), 1, n2))
        y == IF ylen = 4 THEN DigitsVal(yt) ELSE TwoDigitYear(DigitsVal(yt)) IN
    IF /\ n1 \in {1, 2} /\ r1 # <<>> /\ Head(r1) = sep
       /\ n2 \in {1, 2} /\ r2 # <<>> /\ Head(r2) = sep
       /\ isdigit(yt) /\ Len(yt) = ylen
       /\ m \in 1..12 /\ y >= 1 /\ d >= 1 /\ d <= DaysInMonth(y, m)
    THEN Some(<<y, m, d>>)
    ELSE None

RECURSIVE TryFormats(_, _)
\* the first format of the list that parses t (for fmt in formats: try ...)
TryFormats(t, formats) ==
    IF formats = <<>> THEN None
    ELSE LET r == strptime(t, Head(formats)[1], Head(formats)[2]) IN
         IF r # None THEN r ELSE TryFormats(t, Tail(formats))

\* a season named by its start year twice
format_season_SameYear(start_year) == IntStr(start_year) \o <<"-">> \o IntStr(start_year)

\* format_season(start_year) with end_year omitted
format_season(start_year) == IntStr(start_year) \o <<"-">> \o IntStr(start_year + 1)

RECURSIVE split(_, _)
\* t.split(sep) for a separator of one character
split(t, sep) ==
    IF \E i \in DOMAIN t : t[i] = sep
    THEN LET i == CHOOSE i \in DOMAIN t : t[i] = sep /\ \A j \in 1..(i - 1) : t[j] # sep IN
         <<SubSeq(t, 1, i - 1)>> \o split(Drop(t, i), sep)
    ELSE <<t>>

\* the end year of the 2-digit form, given the start year and int(dd)
TwoDigitEnd(start_year, dd) ==
    LET century == (start_year \div 100) * 100
        end_year == century + dd IN
    IF end_year < start_year THEN end_year + 100 ELSE end_year

\* the end year of the 2-digit form without the step over the century
TwoDigitEnd_SameCentury(start_year, dd) == (start_year \div 100) * 100 + dd

\* parse_season with the end year of the 2-digit form kept in the century
\* of the start year
parse_season_SameCentury(season) ==
    LET parts == split(season, "-") IN
    IF Len(parts) < 2 \/ ~IntOk(parts[1]) \/ ~IntOk(parts[2]) THEN None
    ELSE IF Len(parts[2]) = 2
         THEN Some(<<IntVal(parts[1]), TwoDigitEnd_SameCentury(IntVal(parts[1]), IntVal(parts[2]))>>)
         ELSE Some(<<IntVal(parts[1]), IntVal(parts[2])>>)

\* parse_season(season): Some(<<start_year, end_year>>), or None where it
\* raises (int() of a part that is no number, or no second part)
parse_season(season) ==
    LET parts == split(season, "-") IN
    IF Len(parts) < 2 \/ ~IntOk(parts[1]) \/ ~IntOk(parts[2]) THEN None
    ELSE IF Len(parts[2]) = 2
         THEN Some(<<IntVal(parts[1]), TwoDigitEnd(IntVal(parts[1]), IntVal(parts[2]))>>)
         ELSE Some(<<IntVal(parts[1]), IntVal(parts[2])>>)

\* a season that starts in August
get_season_from_date_August(match_date) ==
    IF match_date[2] >= 8 THEN format_season(match_date[1])
    ELSE format_season(match_date[1] - 1)

\* get_season_from_date(match_date): the season starts in July
get_season_from_date(match_date) ==
    IF match_date[2] >= 7 THEN format_season(match_date[1])
    ELSE format_season(match_date[1] - 1)

---------------------------------------------------------------------------
(* JSON columns: scorers and lineup are stored as the text of a JSON array *)

json_dumps(list) == [json |-> list]
json_loads(text) == text.json

\* Python truthiness of an Optional[list]: None and [] are falsy
Truthy(o) == o # None /\ o[1] # <<>>

---------------------------------------------------------------------------
(* The store: storage/database.py *)

OptionalFields == {"attendance", "referee", "scorers", "lineup", "source_match_id"}

\* the parameter tuple both INSERT statements bind
MatchParams(m) ==
    [date            |-> isoformat(m.date),
     opposition      |-> m.opposition,
     venue           |-> m.venue,
     goals_for       |-> m.goals_for,
     goals_against   |-> m.goals_against,
     competition     |-> m.competition,
     season          |-> m.season,
     attendance      |-> m.attendance,
     referee         |-> m.referee,
     scorers         |-> IF Truthy(m.scorers) THEN Some(json_dumps(m.scorers[1])) ELSE None,
     lineup          |-> IF Truthy(m.lineup) THEN Some(json_dumps(m.lineup[1])) ELSE None,
     source          |-> Some(m.source),
     source_match_id |-> m.source_match_id,
     detail_fetched  |-> IF m.detail_fetched THEN 1 ELSE 0]

\* NOT NULL and CHECK (venue IN ('H','A','N')) of the schema
SchemaOk(p) ==
    /\ p.competition # None
    /\ p.venue \in {"H", "A", "N"}

\* a schema whose uniqueness constraint names season in place of competition
Conflicts_BySeason(table, p) ==
    {i \in DOMAIN table :
        /\ table[i].date = p.date
        /\ table[i].opposition = p.opposition
        /\ table[i].season = p.season}

\* UNIQUE(date, opposition, competition): the rows an INSERT of p conflicts with
Conflicts(table, p) ==
    {i \in DOMAIN table :
        /\ table[i].date = p.date
        /\ table[i].opposition = p.opposition
        /\ table[i].competition = p.competition}

NewRow(p, id) == [id |-> id] @@ p

Max(a, b) == IF a >= b THEN a ELSE b

\* the merge as written
UpdateSetClause(r, x) ==
    [r EXCEPT
        !.venue           = x.venue,
        !.goals_for       = x.goals_for,
        !.goals_against   = x.goals_against,
        !.season          = x.season,
        !.attendance      = COALESCE(x.attendance, r.attendance),
        !.referee         = COALESCE(x.referee, r.referee),
        !.scorers         = COALESCE(x.scorers, r.scorers),
        !.lineup          = COALESCE(x.lineup, r.lineup),
        !.source          = IF x.source # None /\ x.source # Some("") THEN x.source ELSE r.source,
        !.source_match_id = COALESCE(x.source_match_id, r.source_match_id),
        !.detail_fetched  = Max(r.detail_fetched, x.detail_fetched)]

\* a merge that adds the incoming goals to the stored ones
DoUpdateSet_AddGoals(r, x) ==
    [UpdateSetClause(r, x) EXCEPT !.goals_for = r.goals_for + x.goals_for]

\* a merge that keeps a stored optional value over the incoming one
DoUpdateSet_KeepStored(r, x) ==
    [UpdateSetClause(r, x) EXCEPT
        !.attendance = COALESCE(r.attendance, x.attendance),
        !.referee    = COALESCE(r.referee, x.referee)]

\* a merge that takes the incoming detail_fetched as it is
DoUpdateSet_TakeDetailFetched(r, x) ==
    [UpdateSetClause(r, x) EXCEPT !.detail_fetched = x.detail_fetched]

\* a merge that takes the incoming source as it is
DoUpdateSet_TakeSource(r, x) ==
    [UpdateSetClause(r, x) EXCEPT !.source = x.source]

\* ON CONFLICT(date, opposition, competition) DO UPDATE SET ...
DoUpdateSet(r, x) == UpdateSetClause(r, x)

\* the outcome of a store call: it raised or not, the table and the key
\* counter it leaves, and cursor.lastrowid
Outcome(raised, table, s, rowid) ==
    [raised |-> raised, matches |-> table, seq |-> s, lastrowid |-> rowid]

\* an INSERT into a table without the uniqueness constraint: the row is
\* appended whatever the table holds
insert_match_NoUnique(table, s, m) ==
    LET p == MatchParams(m) IN
    IF ~SchemaOk(p)
    THEN Outcome(TRUE, table, s, 0)
    ELSE Outcome(FALSE, Append(table, NewRow(p, s + 1)), s + 1, s + 1)

\* Database.insert_match: a failed statement is rolled back by _connection
insert_match(table, s, m) ==
    LET p == MatchParams(m) IN
    IF ~SchemaOk(p) \/ Conflicts(table, p) # {}
    THEN Outcome(TRUE, table, s, 0)
    ELSE Outcome(FALSE, Append(table, NewRow(p, s + 1)), s + 1, s + 1)

\* Database.upsert_match
upsert_match(table, s, m) ==
    LET p == MatchParams(m)
        hit == Conflicts(table, p) IN
    IF ~SchemaOk(p)
    THEN Outcome(TRUE, table, s, 0)
    ELSE IF hit = {}
    THEN Outcome(FALSE, Append(table, NewRow(p, s + 1)), s + 1, s + 1)
    ELSE Outcome(FALSE,
                 [i \in DOMAIN table |->
                     IF i \in hit THEN DoUpdateSet(table[i], p) ELSE table[i]],
                 s + 1, 0)

\* Database._row_to_match
row_to_match(row) ==
    [date            |-> fromisoformat(row.date),
     opposition      |-> row.opposition,
     venue           |-> row.venue,
     goals_for       |-> row.goals_for,
     goals_against   |-> row.goals_against,
     competition     |-> row.competition,
     season          |-> row.season,
     attendance      |-> row.attendance,
     referee         |-> row.referee,
     scorers         |-> IF row.scorers # None THEN Some(json_loads(row.scorers[1])) ELSE None,
     lineup          |-> IF row.lineup # None THEN Some(json_loads(row.lineup[1])) ELSE None,
     source          |-> IF row.source # None /\ row.source # Some("") THEN row.source[1] ELSE "",
     source_match_id |-> row.source_match_id,
     detail_fetched  |-> row.detail_fetched # 0]

\* the order of the characters of a date text (their ASCII codes)
CharCode(c) == IF c = "-" THEN 45 ELSE 48 + DigitVal(c)

RECURSIVE TextLess(_, _)
\* a < b for two TEXT values under SQLite's BINARY collation
TextLess(a, b) ==
    IF b = <<>> THEN FALSE
    ELSE IF a = <<>> THEN TRUE
    ELSE IF CharCode(Head(a)) # CharCode(Head(b)) THEN CharCode(Head(a)) < CharCode(Head(b))
    ELSE TextLess(Tail(a), Tail(b))

RECURSIVE InsertByDate(_, _)
InsertByDate(sorted, row) ==
    IF sorted = <<>> THEN <<row>>
    ELSE IF TextLess(row.date, Head(sorted).date) THEN <<row>> \o sorted
    ELSE <<Head(sorted)>> \o InsertByDate(Tail(sorted), row)

RECURSIVE OrderByDate(_)
\* ORDER BY date: rows of one date stay in rowid order
OrderByDate(table) ==
    IF table = <<>> THEN <<>>
    ELSE InsertByDate(OrderByDate(SubSeq(table, 1, Len(table) - 1)), table[Len(table)])

\* Database.get_all_matches
get_all_matches(table) ==
    LET rows == OrderByDate(table) IN [i \in DOMAIN rows |-> row_to_match(rows[i])]

\* Database.get_match_count
get_match_count(table) == Len(table)

\* Match.result: models/match.py
Match_result(m) ==
    IF m.goals_for > m.goals_against THEN "W"
    ELSE IF m.goals_for < m.goals_against THEN "L"
    ELSE "D"

\* SELECT * FROM matches WHERE id = ?
get_match(table, match_id) ==
    LET rows == SelectSeq(table, LAMBDA r : r.id = match_id) IN
    IF rows # <<>> THEN Some(row_to_match(rows[1])) ELSE None

\* a query that returns the rows in the order they were inserted
get_matches_by_season_Unordered(table, season) ==
    LET rows == SelectSeq(table, LAMBDA r : r.season = season) IN
    [i \in DOMAIN rows |-> row_to_match(rows[i])]

\* Database.get_matches_by_season: WHERE season = ? ORDER BY date
get_matches_by_season(table, season) ==
    LET rows == OrderByDate(SelectSeq(table, LAMBDA r : r.season = season)) IN
    [i \in DOMAIN rows |-> row_to_match(rows[i])]

\* the WHERE clause of the enrichment query: source is None or Some(text),
\* and "if source" sends None and "" alike to the statement without a source
NeedsEnrichment(r, source) ==
    /\ r.detail_fetched = 0
    /\ (source # None /\ source[1] # "") => r.source = source
    /\ r.source_match_id # None

\* Database.get_matches_needing_enrichment
get_matches_needing_enrichment(table, source) ==
    LET rows == OrderByDate(SelectSeq(table, LAMBDA r : NeedsEnrichment(r, source))) IN
    [i \in DOMAIN rows |-> row_to_match(rows[i])]

RECURSIVE SUM(_)
\* SUM(...) over the rows of a group
SUM(values) == IF values = <<>> THEN 0 ELSE Head(values) + SUM(Tail(values))

\* an aggregate that counts a draw as a win as well
SeasonRow_DrawsAsWins(season, rows) ==
    [season   |-> season,
     matches  |-> Len(rows),
     wins     |-> SUM([i \in DOMAIN rows |-> IF rows[i].goals_for >= rows[i].goals_against THEN 1 ELSE 0]),
     draws    |-> SUM([i \in DOMAIN rows |-> IF rows[i].goals_for = rows[i].goals_against THEN 1 ELSE 0]),
     losses   |-> SUM([i \in DOMAIN rows |-> IF rows[i].goals_for < rows[i].goals_against THEN 1 ELSE 0]),
     scored   |-> SUM([i \in DOMAIN rows |-> rows[i].goals_for]),
     conceded |-> SUM([i \in DOMAIN rows |-> rows[i].goals_against])]

\* the select list of the season summary, over the rows of one season
SeasonRow(season, rows) ==
    [season   |-> season,
     matches  |-> Len(rows),
     wins     |-> SUM([i \in DOMAIN rows |-> IF rows[i].goals_for > rows[i].goals_against THEN 1 ELSE 0]),
     draws    |-> SUM([i \in DOMAIN rows |-> IF rows[i].goals_for = rows[i].goals_against THEN 1 ELSE 0]),
     losses   |-> SUM([i \in DOMAIN rows |-> IF rows[i].goals_for < rows[i].goals_against THEN 1 ELSE 0]),
     scored   |-> SUM([i \in DOMAIN rows |-> rows[i].goals_for]),
     conceded |-> SUM([i \in DOMAIN rows |-> rows[i].goals_against])]

RECURSIVE OrderBySeason(_)
\* ORDER BY season over the groups: the season texts in ascending order
OrderBySeason(seasons) ==
    IF seasons = {} THEN <<>>
    ELSE LET least == CHOOSE t \in seasons : \A u \in seasons \ {t} : TextLess(t, u) IN
         <<least>> \o OrderBySeason(seasons \ {least})

\* Database.get_season_summary: GROUP BY season ORDER BY season
get_season_summary(table) ==
    LET seasons == OrderBySeason({table[i].season : i \in DOMAIN table}) IN
    [k \in DOMAIN seasons |->
        SeasonRow(seasons[k], SelectSeq(table, LAMBDA r : r.season = seasons[k]))]

---------------------------------------------------------------------------
(* What an adapter gets from http_client.get_text: the fetch raised, or it *)
(* returned a body.  What scrape_season gives back: it raised, or it       *)
(* returned a list of Match objects.                                       *)

FetchError == [ok |-> FALSE]
Fetched(body) == [ok |-> TRUE, body |-> body]

Returned(list) == [raised |-> FALSE, matches |-> list]
Raised == [raised |-> TRUE, matches |-> <<>>]

\* a Match built without a source_match_id
AdapterMatch_NoId(date, opposition, venue, goals_for, goals_against, competition, season, attendance, referee, source) ==
    [date            |-> date,
     opposition      |-> opposition,
     venue           |-> venue,
     goals_for       |-> goals_for,
     goals_against   |-> goals_against,
     competition     |-> competition,
     season          |-> season,
     attendance      |-> attendance,
     referee         |-> referee,
     scorers         |-> None,
     lineup          |-> None,
     source          |-> source,
     source_match_id |-> None,
     detail_fetched  |-> FALSE]

\* a Match as the adapters build it: scorers, lineup and detail_fetched are
\* left at their defaults
AdapterMatch(date, opposition, venue, goals_for, goals_against, competition, season, attendance, referee, source) ==
    [date            |-> date,
     opposition      |-> opposition,
     venue           |-> venue,
     goals_for       |-> goals_for,
     goals_against   |-> goals_against,
     competition     |-> competition,
     season          |-> season,
     attendance      |-> attendance,
     referee         |-> referee,
     scorers         |-> None,
     lineup          |-> None,
     source          |-> source,
     source_match_id |-> Some(isoformat(date) \o <<"_">> \o opposition),
     detail_fetched  |-> FALSE]

---------------------------------------------------------------------------
(* The football-data adapter: scrapers/football_data.py.  The body of a    *)
(* response is the list of the dicts csv.DictReader yields: a column the   *)
(* header does not name is no key of the dict, a column a short line does  *)
(* not reach is None.                                                      *)

FootballDataSOURCE_NAME == "football-data"
FootballDataMIN_SEASON == 1993
FootballDataMAX_SEASON == 2026
TEAM_NAME == <<"S", "o", "u", "t", "h", "e", "n", "d">>

\* SOUTHEND_DIVISIONS.get(start_year)
get_division_for_season(start_year) ==
    IF start_year \in (1993..1996) \cup (2007..2009) \cup (2015..2019) \cup {2005}
        THEN Some("E2")
    ELSE IF start_year \in (1997..2004) \cup (2010..2014) \cup {2020} THEN Some("E3")
    ELSE IF start_year = 2006 THEN Some("E1")
    ELSE IF start_year \in 2021..2025 THEN Some("EC")
    ELSE None

\* row.get(key, "")
RowGet(row, key) == IF key \in DOMAIN row THEN row[key] ELSE Some(<<>>)

\* FootballDataScraper._parse_date
FootballData_parse_date(date_str) ==
    TryFormats(date_str, << <<"/", 4>>, <<"/", 2>> >>)

\* int(row.get(key, row.get(alt, 0))): None where int raises
RowInt(row, key, alt) ==
    LET v == IF key \in DOMAIN row THEN row[key]
             ELSE IF alt \in DOMAIN row THEN row[alt] ELSE Some(<<"0">>) IN
    IF v # None /\ IntOk(v[1]) THEN Some(IntVal(v[1])) ELSE None

\* competition_map.get(div, div)
FootballData_competition(div) ==
    IF div = Some(<<"E", "0">>) THEN Some(<<"P", "r", "e", "m", "i", "e", "r", " ", "L", "e", "a", "g", "u", "e">>)
    ELSE IF div = Some(<<"E", "1">>) THEN Some(<<"C", "h", "a", "m", "p", "i", "o", "n", "s", "h", "i", "p">>)
    ELSE IF div = Some(<<"E", "2">>) THEN Some(<<"L", "e", "a", "g", "u", "e", " ", "O", "n", "e">>)
    ELSE IF div = Some(<<"E", "3">>) THEN Some(<<"L", "e", "a", "g", "u", "e", " ", "T", "w", "o">>)
    ELSE IF div = Some(<<"E", "C">>) THEN Some(<<"N", "a", "t", "i", "o", "n", "a", "l", " ", "L", "e", "a", "g", "u", "e">>)
    ELSE div

\* the attendance of a row
FootballData_attendance(row) ==
    IF "Attendance" \in DOMAIN row /\ row["Attendance"] # None
       /\ row["Attendance"] # Some(<<>>) /\ IntOk(row["Attendance"][1])
    THEN Some(IntVal(row["Attendance"][1])) ELSE None

\* row.get("Referee") or None
FootballData_referee(row) ==
    IF "Referee" \in DOMAIN row /\ row["Referee"] # Some(<<>>) THEN row["Referee"] ELSE None

\* FootballDataScraper._parse_match_row: it raises (a TypeError of "in" on a
\* None team), returns None (the row is skipped) or returns a Match
FootballData_parse_match_row(row, season) ==
    LET home_team == RowGet(row, "HomeTeam")
        away_team == RowGet(row, "AwayTeam") IN
    IF home_team = None \/ away_team = None THEN [raised |-> TRUE, match |-> None]
    ELSE
    LET is_home == Contains(home_team[1], TEAM_NAME)
        is_away == Contains(away_team[1], TEAM_NAME)
        date_arg == RowGet(row, "Date")
        match_date == IF date_arg = None THEN None ELSE FootballData_parse_date(date_arg[1])
        fthg == RowInt(row, "FTHG", "HG")
        ftag == RowInt(row, "FTAG", "AG") IN
    IF ~is_home /\ ~is_away THEN [raised |-> FALSE, match |-> None]
    ELSE IF match_date = None \/ fthg = None \/ ftag = None
    THEN [raised |-> FALSE, match |-> None]
    ELSE [raised |-> FALSE,
          match |-> Some(AdapterMatch(
              match_date[1],
              IF is_home THEN away_team[1] ELSE home_team[1],
              IF is_home THEN "H" ELSE "A",
              IF is_home THEN fthg[1] ELSE ftag[1],
              IF is_home THEN ftag[1] ELSE fthg[1],
              FootballData_competition(RowGet(row, "Div")),
              season,
              FootballData_attendance(row),
              FootballData_referee(row),
              FootballDataSOURCE_NAME))]

RECURSIVE FootballData_rows(_, _)
\* for row in reader: ... matches.append(match)
FootballData_rows(rows, season) ==
    IF rows = <<>> THEN Returned(<<>>)
    ELSE LET first == FootballData_parse_match_row(Head(rows), season)
             rest == FootballData_rows(Tail(rows), season) IN
         IF first.raised \/ rest.raised THEN Raised
         ELSE Returned((IF first.match = None THEN <<>> ELSE <<first.match[1]>>)
                         \o rest.matches)

\* FootballDataScraper.scrape_season
FootballData_scrape_season(start_year, response) ==
    IF get_division_for_season(start_year) = None THEN Returned(<<>>)
    ELSE IF ~response.ok THEN Returned(<<>>)
    ELSE FootballData_rows(response.body, format_season(start_year))

---------------------------------------------------------------------------
(* The statto adapter: scrapers/statto.py.  The body of a response is the  *)
(* page as BeautifulSoup hands it over: the tables, each the list of its   *)
(* rows, each the list of its cells; a cell has its text                   *)
(* (get_text(strip=True)) and the links (href, text) it holds.             *)

StattoSOURCE_NAME == "statto"
StattoMIN_SEASON == 1909
StattoMAX_SEASON == 2017

\* a <td> and a <th>
Cell(text, links) == [tag |-> "td", text |-> text, links |-> links]
HeaderCell(text) == [tag |-> "th", text |-> text, links |-> <<>>]
Link(href, text) == [href |-> href, text |-> text]

Unknown == <<"U", "n", "k", "n", "o", "w", "n">>

\* StattoScraper.COMPETITION_MAP, in the order of the dict
StattoCOMPETITION_MAP == <<
    << <<"e", "n", "g", "l", "i", "s", "h", " ", "d", "i", "v", "i", "s", "i", "o", "n", " ", "o", "n", "e">>,
       <<"F", "i", "r", "s", "t", " ", "D", "i", "v", "i", "s", "i", "o", "n">> >>,
    << <<"e", "n", "g", "l", "i", "s", "h", " ", "d", "i", "v", "i", "s", "i", "o", "n", " ", "t", "w", "o">>,
       <<"S", "e", "c", "o", "n", "d", " ", "D", "i", "v", "i", "s", "i", "o", "n">> >>,
    << <<"e", "n", "g", "l", "i", "s", "h", " ", "d", "i", "v", "i", "s", "i", "o", "n", " ", "t", "h", "r", "e", "e">>,
       <<"T", "h", "i", "r", "d", " ", "D", "i", "v", "i", "s", "i", "o", "n">> >>,
    << <<"e", "n", "g", "l", "i", "s", "h", " ", "d", "i", "v", "i", "s", "i", "o", "n", " ", "t", "h", "r", "e", "e", " ", "(", "s", "o", "u", "t", "h", ")">>,
       <<"T", "h", "i", "r", "d", " ", "D", "i", "v", "i", "s", "i", "o", "n", " ", "S", "o", "u", "t", "h">> >>,
    << <<"e", "n", "g", "l", "i", "s", "h", " ", "d", "i", "v", "i", "s", "i", "o", "n", " ", "t", "h", "r", "e", "e", " ", "s", "o", "u", "t", "h">>,
       <<"T", "h", "i", "r", "d", " ", "D", "i", "v", "i", "s", "i", "o", "n", " ", "S", "o", "u", "t", "h">> >>,
    << <<"e", "n", "g", "l", "i", "s", "h", " ", "d", "i", "v", "i", "s", "i", "o", "n", " ", "t", "h", "r", "e", "e", " ", "(", "n", "o", "r", "t", "h", ")">>,
       <<"T", "h", "i", "r", "d", " ", "D", "i", "v", "i", "s", "i", "o", "n", " ", "N", "o", "r", "t", "h">> >>,
    << <<"e", "n", "g", "l", "i", "s", "h", " ", "d", "i", "v", "i", "s", "i", "o", "n", " ", "t", "h", "r", "e", "e", " ", "n", "o", "r", "t", "h">>,
       <<"T", "h", "i", "r", "d", " ", "D", "i", "v", "i", "s", "i", "o", "n", " ", "N", "o", "r", "t", "h">> >>,
    << <<"e", "n", "g", "l", "i", "s", "h", " ", "d", "i", "v", "i", "s", "i", "o", "n", " ", "f", "o", "u", "r">>,
       <<"F", "o", "u", "r", "t", "h", " ", "D", "i", "v", "i", "s", "i", "o", "n">> >>,
    << <<"e", "n", "g", "l", "i", "s", "h", " ", "p", "r", "e", "m", "i", "e", "r", " ", "l", "e", "a", "g", "u", "e">>,
       <<"P", "r", "e", "m", "i", "e", "r", " ", "L", "e", "a", "g", "u", "e">> >>,
    << <<"e", "n", "g", "l", "i", "s", "h", " ", "c", "h", "a", "m", "p", "i", "o", "n", "s", "h", "i", "p">>,
       <<"C", "h", "a", "m", "p", "i", "o", "n", "s", "h", "i", "p">> >>,
    << <<"e", "n", "g", "l", "i", "s", "h", " ", "l", "e", "a", "g", "u", "e", " ", "o", "n", "e">>,
       <<"L", "e", "a", "g", "u", "e", " ", "O", "n", "e">> >>,
    << <<"e", "n", "g", "l", "i", "s", "h", " ", "l", "e", "a", "g", "u", "e", " ", "t", "w", "o">>,
       <<"L", "e", "a", "g", "u", "e", " ", "T", "w", "o">> >>,
    << <<"e", "n", "g", "l", "i", "s", "h", " ", "c", "o", "n", "f", "e", "r", "e", "n", "c", "e">>,
       <<"N", "a", "t", "i", "o", "n", "a", "l", " ", "L", "e", "a", "g", "u", "e">> >>,
    << <<"c", "o", "n", "f", "e", "r", "e", "n", "c", "e", " ", "n", "a", "t", "i", "o", "n", "a", "l">>,
       <<"N", "a", "t", "i", "o", "n", "a", "l", " ", "L", "e", "a", "g", "u", "e">> >>,
    << <<"f", "a", " ", "c", "u", "p">>,
       <<"F", "A", " ", "C", "u", "p">> >>,
    << <<"l", "e", "a", "g", "u", "e", " ", "c", "u", "p">>,
       <<"L", "e", "a", "g", "u", "e", " ", "C", "u", "p">> >>,
    << <<"e", "f", "l", " ", "c", "u", "p">>,
       <<"L", "e", "a", "g", "u", "e", " ", "C", "u", "p">> >>,
    << <<"f", "o", "o", "t", "b", "a", "l", "l", " ", "l", "e", "a", "g", "u", "e", " ", "c", "u", "p">>,
       <<"L", "e", "a", "g", "u", "e", " ", "C", "u", "p">> >>,
    << <<"f", "o", "o", "t", "b", "a", "l", "l", " ", "l", "e", "a", "g", "u", "e", " ", "t", "r", "o", "p", "h", "y">>,
       <<"E", "F", "L", " ", "T", "r", "o", "p", "h", "y">> >>,
    << <<"a", "s", "s", "o", "c", "i", "a", "t", "e", " ", "m", "e", "m", "b", "e", "r", "s", " ", "c", "u", "p">>,
       <<"E", "F", "L", " ", "T", "r", "o", "p", "h", "y">> >>,
    << <<"a", "u", "t", "o", " ", "w", "i", "n", "d", "s", "c", "r", "e", "e", "n", "s", " ", "s", "h", "i", "e", "l", "d">>,
       <<"E", "F", "L", " ", "T", "r", "o", "p", "h", "y">> >>,
    << <<"j", "o", "h", "n", "s", "t", "o", "n", "e", "'", "s", " ", "p", "a", "i", "n", "t", " ", "t", "r", "o", "p", "h", "y">>,
       <<"E", "F", "L", " ", "T", "r", "o", "p", "h", "y">> >> >>

RECURSIVE FirstAlias(_, _)
\* for key, value in COMPETITION_MAP.items(): if key in comp_lower: return value
FirstAlias(map, comp_lower) ==
    IF map = <<>> THEN None
    ELSE IF Contains(comp_lower, Head(map)[1]) THEN Some(Head(map)[2])
    ELSE FirstAlias(Tail(map), comp_lower)

\* StattoScraper._normalize_competition
Statto_normalize_competition(comp) ==
    LET hit == FirstAlias(StattoCOMPETITION_MAP, lower(strip(comp))) IN
    IF hit # None THEN hit[1] ELSE strip(comp)

\* StattoScraper._parse_date
Statto_parse_date(date_str) ==
    TryFormats(strip(date_str), << <<".", 4>>, <<"/", 4>>, <<".", 2>>, <<"/", 2>> >>)

\* re.match(r"[WDL]?(\d+)-(\d+)", t): the two groups as numbers, or None
MatchResult(t) ==
    LET u == IF t # <<>> /\ Head(t) \in {"W", "D", "L"} THEN Tail(t) ELSE t
        n1 == DigitRun(u)
        v == Drop(u, n1)
        n2 == IF v = <<>> THEN 0 ELSE DigitRun(Tail(v)) IN
    IF n1 >= 1 /\ v # <<>> /\ Head(v) = "-" /\ n2 >= 1
    THEN Some(<<DigitsVal(SubSeq(u, 1, n1)), DigitsVal(SubSeq(Tail(v), 1, n2))>>)
    ELSE None

\* StattoScraper._parse_result: None where it raises ValueError
Statto_parse_result(result_str) == MatchResult(upper(strip(result_str)))

\* re.match(r"\d{2}\.\d{2}\.\d{4}", text)
LooksLikeDate(text) ==
    /\ Len(text) >= 10
    /\ \A i \in {1, 2, 4, 5, 7, 8, 9, 10} : text[i] \in Digits
    /\ text[3] = "." /\ text[6] = "."

\* re.match(r"[WDL]\d+-\d+", text, re.IGNORECASE)
LooksLikeResult(text) ==
    /\ text # <<>> /\ UpperChar(Head(text)) \in {"W", "D", "L"}
    /\ MatchResult(upper(text)) # None

\* the links of a cell whose href matches /teams/
TeamLinks(cell) ==
    {k \in DOMAIN cell.links : Contains(cell.links[k].href, <<"/", "t", "e", "a", "m", "s", "/">>)}

\* what the content of a cell makes of its column (the if/elif chain)
ColumnKind(cell) ==
    IF LooksLikeDate(cell.text) THEN "date"
    ELSE IF lower(cell.text) \in {<<"h", "o", "m", "e">>, <<"a", "w", "a", "y">>, <<"h">>, <<"a">>} THEN "venue"
    ELSE IF LooksLikeResult(cell.text) THEN "result"
    ELSE IF TeamLinks(cell) # {} THEN "opponent"
    ELSE "other"

\* the index the loop leaves for a kind of column: the last such cell, or None
ColumnIndex(cells, kind) ==
    LET at == {i \in DOMAIN cells : ColumnKind(cells[i]) = kind} IN
    IF at = {} THEN None ELSE Some(CHOOSE i \in at : \A j \in at : j <= i)

\* StattoScraper._parse_match_row: a Match, or None for a row it drops
Statto_parse_match_row(cells, competition, season) ==
    LET date_idx == ColumnIndex(cells, "date")
        opponent_idx == ColumnIndex(cells, "opponent")
        venue_idx == ColumnIndex(cells, "venue")
        result_idx == ColumnIndex(cells, "result") IN
    IF Len(cells) < 5 THEN None
    ELSE IF None \in {date_idx, opponent_idx, venue_idx, result_idx} THEN None
    ELSE
    LET match_date == Statto_parse_date(cells[date_idx[1]].text)
        venue_str == lower(cells[venue_idx[1]].text)
        goals == Statto_parse_result(cells[result_idx[1]].text)
        opponent == cells[opponent_idx[1]].links[1].text IN
    IF match_date = None \/ goals = None THEN None
    ELSE Some(AdapterMatch(
             match_date[1],
             opponent,
             IF venue_str \in {<<"h", "o", "m", "e">>, <<"h">>} THEN "H" ELSE "A",
             goals[1][1],
             goals[1][2],
             Some(competition),
             season,
             None,
             None,
             StattoSOURCE_NAME))

\* the scan of a table is a fold over its rows that carries the matches
\* found and the current competition
ScanStart == [matches |-> <<>>, current_competition |-> Unknown]

\* one row of the loop of _parse_results_table
Statto_scan_row(scan, cells, season) ==
    IF cells = <<>> THEN scan
    ELSE IF Len(cells) = 1
    THEN IF cells[1].text # <<>> /\ ~isdigit(cells[1].text)
         THEN [scan EXCEPT
                 !.current_competition = Statto_normalize_competition(cells[1].text)]
         ELSE scan
    ELSE IF \E i \in DOMAIN cells : lower(cells[i].text) \in {<<"d", "a", "t", "e">>, <<"o", "p", "p", "o", "n", "e", "n", "t">>}
    THEN scan
    ELSE LET match == Statto_parse_match_row(cells, scan.current_competition, season) IN
         IF match = None THEN scan
         ELSE [scan EXCEPT !.matches = Append(scan.matches, match[1])]

RECURSIVE Statto_scan(_, _, _)
Statto_scan(scan, rows, season) ==
    IF rows = <<>> THEN scan
    ELSE Statto_scan(Statto_scan_row(scan, Head(rows), season), Tail(rows), season)

\* StattoScraper._parse_results_table
Statto_parse_results_table(table, season) == Statto_scan(ScanStart, table, season).matches

RECURSIVE Statto_tables(_, _)
\* for table in tables: matches.extend(...)
Statto_tables(tables, season) ==
    IF tables = <<>> THEN <<>>
    ELSE Statto_parse_results_table(Head(tables), season) \o Statto_tables(Tail(tables), season)

\* a scrape_season that lets the exception of a failed fetch through
Statto_scrape_season_FetchRaises(start_year, response) ==
    IF ~response.ok THEN Raised
    ELSE Returned(Statto_tables(response.body, format_season(start_year)))

\* StattoScraper.scrape_season
Statto_scrape_season(start_year, response) ==
    IF ~response.ok THEN Returned(<<>>)
    ELSE Returned(Statto_tables(response.body, format_season(start_year)))

---------------------------------------------------------------------------
(* The transfermarkt adapter: scrapers/transfermarkt.py.  The body of a    *)
(* response is a page of tables as for statto.  Column indices count from  *)
(* 0 as in the code: column k is cells[k + 1].                             *)

TransfermarktSOURCE_NAME == "transfermarkt"
TransfermarktMIN_SEASON == 1910
TransfermarktMAX_SEASON == 2026

\* TransfermarktScraper.COMPETITION_MAP, in the order of the dict
TransfermarktCOMPETITION_MAP == <<
    << <<"p", "r", "e", "m", "i", "e", "r", " ", "l", "e", "a", "g", "u", "e">>,
       <<"P", "r", "e", "m", "i", "e", "r", " ", "L", "e", "a", "g", "u", "e">> >>,
    << <<"c", "h", "a", "m", "p", "i", "o", "n", "s", "h", "i", "p">>,
       <<"C", "h", "a", "m", "p", "i", "o", "n", "s", "h", "i", "p">> >>,
    << <<"l", "e", "a", "g", "u", "e", " ", "o", "n", "e">>,
       <<"L", "e", "a", "g", "u", "e", " ", "O", "n", "e">> >>,
    << <<"l", "e", "a", "g", "u", "e", " ", "t", "w", "o">>,
       <<"L", "e", "a", "g", "u", "e", " ", "T", "w", "o">> >>,
    << <<"t", "h", "i", "r", "d", " ", "d", "i", "v", "i", "s", "i", "o", "n">>,
       <<"T", "h", "i", "r", "d", " ", "D", "i", "v", "i", "s", "i", "o", "n">> >>,
    << <<"t", "h", "i", "r", "d", " ", "d", "i", "v", "i", "s", "i", "o", "n", " ", "s", "o", "u", "t", "h">>,
       <<"T", "h", "i", "r", "d", " ", "D", "i", "v", "i", "s", "i", "o", "n", " ", "S", "o", "u", "t", "h">> >>,
    << <<"f", "o", "u", "r", "t", "h", " ", "d", "i", "v", "i", "s", "i", "o", "n">>,
       <<"F", "o", "u", "r", "t", "h", " ", "D", "i", "v", "i", "s", "i", "o", "n">> >>,
    << <<"s", "e", "c", "o", "n", "d", " ", "d", "i", "v", "i", "s", "i", "o", "n">>,
       <<"S", "e", "c", "o", "n", "d", " ", "D", "i", "v", "i", "s", "i", "o", "n">> >>,
    << <<"f", "i", "r", "s", "t", " ", "d", "i", "v", "i", "s", "i", "o", "n">>,
       <<"F", "i", "r", "s", "t", " ", "D", "i", "v", "i", "s", "i", "o", "n">> >>,
    << <<"n", "a", "t", "i", "o", "n", "a", "l", " ", "l", "e", "a", "g", "u", "e">>,
       <<"N", "a", "t", "i", "o", "n", "a", "l", " ", "L", "e", "a", "g", "u", "e">> >>,
    << <<"c", "o", "n", "f", "e", "r", "e", "n", "c", "e">>,
       <<"N", "a", "t", "i", "o", "n", "a", "l", " ", "L", "e", "a", "g", "u", "e">> >>,
    << <<"f", "a", " ", "c", "u", "p">>,
       <<"F", "A", " ", "C", "u", "p">> >>,
    << <<"e", "f", "l", " ", "c", "u", "p">>,
       <<"L", "e", "a", "g", "u", "e", " ", "C", "u", "p">> >>,
    << <<"l", "e", "a", "g", "u", "e", " ", "c", "u", "p">>,
       <<"L", "e", "a", "g", "u", "e", " ", "C", "u", "p">> >>,
    << <<"e", "f", "l", " ", "t", "r", "o", "p", "h", "y">>,
       <<"E", "F", "L", " ", "T", "r", "o", "p", "h", "y">> >>,
    << <<"f", "o", "o", "t", "b", "a", "l", "l", " ", "l", "e", "a", "g", "u", "e", " ", "t", "r", "o", "p", "h", "y">>,
       <<"E", "F", "L", " ", "T", "r", "o", "p", "h", "y">> >> >>

skip_terms == {
    <<"o", "v", "e", "r", "a", "l", "l", " ", "b", "a", "l", "a", "n", "c", "e">>,
    <<"h", "o", "m", "e", " ", "r", "e", "c", "o", "r", "d">>,
    <<"a", "w", "a", "y", " ", "r", "e", "c", "o", "r", "d">>,
    <<"t", "a", "b", "l", "e", " ", "s", "e", "c", "t", "i", "o", "n">>,
    <<"m", "a", "t", "c", "h", "e", "s">>,
    <<"r", "a", "n", "k", "i", "n", "g">>,
    <<"c", "l", "u", "b">>,
    <<"f", "i", "l", "t", "e", "r", " ", "b", "y">> }

DayNames == {<<"M", "o", "n">>, <<"T", "u", "e">>, <<"W", "e", "d">>, <<"T", "h", "u">>, <<"F", "r", "i">>, <<"S", "a", "t">>, <<"S", "u", "n">>}

Reverse(t) == [i \in DOMAIN t |-> t[Len(t) + 1 - i]]

\* re.sub(r"^(Mon|Tue|Wed|Thu|Fri|Sat|Sun)\s+", "", t)
RemoveDayName(t) ==
    IF Len(t) >= 4 /\ SubSeq(t, 1, 3) \in DayNames /\ IsSpace(t[4])
    THEN Drop(t, 3 + SpaceRun(Drop(t, 3)))
    ELSE t

\* TransfermarktScraper._parse_date
Transfermarkt_parse_date(date_str) ==
    TryFormats(RemoveDayName(strip(date_str)),
               << <<"/", 4>>, <<"/", 2>>, <<".", 4>>, <<".", 2>> >>)

\* a match of (\d+)\s*[seps]\s*(\d+) at the start of t, spaces allowed or not
ScoreAtStart(t, seps, spaces) ==
    LET n1 == DigitRun(t)
        a == Drop(t, n1)
        b == IF spaces THEN Drop(a, SpaceRun(a)) ELSE a
        c == IF b = <<>> THEN <<>> ELSE Tail(b)
        d == IF spaces THEN Drop(c, SpaceRun(c)) ELSE c
        n2 == DigitRun(d) IN
    IF n1 >= 1 /\ b # <<>> /\ Head(b) \in seps /\ n2 >= 1
    THEN Some([home |-> DigitsVal(SubSeq(t, 1, n1)),
               away |-> DigitsVal(SubSeq(d, 1, n2)),
               rest |-> Drop(d, n2)])
    ELSE None

RECURSIVE SearchScore(_, _, _)
\* re.search of the same pattern: its leftmost match
SearchScore(t, seps, spaces) ==
    IF t = <<>> THEN None
    ELSE IF ScoreAtStart(t, seps, spaces) # None THEN ScoreAtStart(t, seps, spaces)
    ELSE SearchScore(Tail(t), seps, spaces)

\* re.search(r"\d+[:-]\d+", t)
HasScore(t) == SearchScore(t, {":", "-"}, FALSE) # None

\* re.match(r"^\d+[:-]\d+$", t)
IsScore(t) ==
    LET m == ScoreAtStart(t, {":", "-"}, FALSE) IN m # None /\ m[1].rest = <<>>

\* TransfermarktScraper._parse_score: None where it raises ValueError
Transfermarkt_parse_score(score_str) == SearchScore(strip(score_str), {":", "|", "-"}, TRUE)

\* str.replace(old, "") for a one-character old
RECURSIVE RemoveChar(_, _)
RemoveChar(t, c) ==
    IF t = <<>> THEN <<>>
    ELSE IF Head(t) = c THEN RemoveChar(Tail(t), c)
    ELSE <<Head(t)>> \o RemoveChar(Tail(t), c)

\* TransfermarktScraper._parse_attendance
Transfermarkt_parse_attendance(att_str) ==
    LET t == strip(RemoveChar(RemoveChar(att_str, ","), ".")) IN
    IF att_str = <<>> THEN None
    ELSE IF IntOk(t) THEN Some(IntVal(t)) ELSE None

\* TransfermarktScraper._normalize_competition
Transfermarkt_normalize_competition(comp) ==
    LET comp_lower == lower(strip(comp))
        hit == FirstAlias(TransfermarktCOMPETITION_MAP, comp_lower) IN
    IF \E term \in skip_terms : Contains(comp_lower, term) THEN None
    ELSE IF hit # None THEN hit
    ELSE IF strip(comp) # <<>> THEN Some(strip(comp))
    ELSE None

\* re.match(r"\(\d+\.\)", t)
IsRanking(t) ==
    /\ t # <<>> /\ Head(t) = "("
    /\ LET n == DigitRun(Tail(t)) IN
       /\ n >= 1
       /\ StartsWith(Drop(t, 1 + n), <<".", ")">>)

\* TransfermarktScraper._clean_opponent_name
clean_opponent_name(name) ==
    LET u == Reverse(rstrip(name))
        n == IF StartsWith(u, <<")", ".">>) THEN DigitRun(Drop(u, 2)) ELSE 0
        v == Drop(u, 2 + n) IN
    IF StartsWith(u, <<")", ".">>) /\ n >= 1 /\ v # <<>> /\ Head(v) = "("
    THEN strip(Reverse(Tail(v)))
    ELSE strip(name)

\* TransfermarktScraper._is_fixtures_table
is_fixtures_table(table) ==
    /\ Len(table) >= 2
    /\ \E i \in DOMAIN table[1] : lower(table[1][i].text) \in {<<"d", "a", "t", "e">>, <<"v", "e", "n", "u", "e">>}

RECURSIVE SummaryRows(_)
SummaryRows(rows) ==
    IF rows = <<>> THEN <<>>
    ELSE LET normalized == IF Len(Head(rows)) = 1
                           THEN Transfermarkt_normalize_competition(Head(rows)[1].text)
                           ELSE None IN
         (IF normalized # None /\ normalized # Some(<<>>) THEN <<normalized[1]>> ELSE <<>>)
           \o SummaryRows(Tail(rows))

RECURSIVE extract_competitions_from_summary(_)
\* TransfermarktScraper._extract_competitions_from_summary
extract_competitions_from_summary(tables) ==
    IF tables = <<>> THEN <<>>
    ELSE SummaryRows(Head(tables)) \o extract_competitions_from_summary(Tail(tables))

\* the column a word of the header names: the last header cell the if/elif
\* chain gives that word, or None
HeaderWords == << <<"d", "a", "t", "e">>, <<"v", "e", "n", "u", "e">>, <<"o", "p", "p", "o", "n", "e", "n", "t">>, <<"r", "e", "s", "u", "l", "t">>, <<"a", "t", "t", "e", "n", "d", "a", "n", "c", "e">> >>

HeaderKind(text) ==
    LET at == {k \in DOMAIN HeaderWords : Contains(text, HeaderWords[k])} IN
    IF at = {} THEN 0 ELSE CHOOSE k \in at : \A j \in at : k <= j

ColIndex(header, k) ==
    LET at == {i \in DOMAIN header : HeaderKind(lower(header[i].text)) = k} IN
    IF at = {} THEN None ELSE Some((CHOOSE i \in at : \A j \in at : j <= i) - 1)

col_indices(header) ==
    [date |-> ColIndex(header, 1), venue |-> ColIndex(header, 2),
     opponent |-> ColIndex(header, 3), result |-> ColIndex(header, 4),
     attendance |-> ColIndex(header, 5)]

\* the <td> cells of a row
TdCells(row) == SelectSeq(row, LAMBDA c : c.tag = "td")

\* the links of a cell whose href matches /verein/|/teams/
ClubLinks(cell) ==
    {k \in DOMAIN cell.links :
        Contains(cell.links[k].href, <<"/", "v", "e", "r", "e", "i", "n", "/">>) \/ Contains(cell.links[k].href, <<"/", "t", "e", "a", "m", "s", "/">>)}

\* the text of the first club link of the row, or None
LinkedOpponent(cells) ==
    LET at == {i \in DOMAIN cells : ClubLinks(cells[i]) # {}} IN
    IF at = {} THEN None
    ELSE LET i == CHOOSE i \in at : \A j \in at : i <= j
             k == CHOOSE k \in ClubLinks(cells[i]) : \A l \in ClubLinks(cells[i]) : k <= l IN
         Some(cells[i].links[k].text)

\* the fallback: the first non-empty, non-score text after the first cell
\* that is empty or a ranking
FallbackOpponent(cells) ==
    LET at == {i \in DOMAIN cells : IsRanking(cells[i].text) \/ cells[i].text = <<>>} IN
    IF at = {} THEN None
    ELSE LET i == CHOOSE i \in at : \A j \in at : i <= j
             after == {j \in DOMAIN cells :
                          j > i /\ cells[j].text # <<>> /\ ~IsScore(cells[j].text)} IN
         IF after = {} THEN None
         ELSE Some(cells[CHOOSE j \in after : \A l \in after : j <= l].text)

\* the text the score is parsed from, or None
ResultText(cells, result_idx) ==
    LET from_column == IF result_idx # None /\ result_idx[1] < Len(cells)
                       THEN Some(cells[result_idx[1] + 1].text) ELSE None
        scores == {i \in DOMAIN cells : IsScore(cells[i].text)} IN
    IF from_column # None /\ from_column # Some(<<>>) /\ HasScore(from_column[1])
    THEN from_column
    ELSE IF scores # {} THEN Some(cells[CHOOSE i \in scores : \A j \in scores : i <= j].text)
    ELSE from_column

\* the end of _parse_match_row: the score is parsed, build the Match
Transfermarkt_match(match_date, venue, opponent, score, attendance, competition, season) ==
    IF score = None THEN None
    ELSE Some(AdapterMatch(
             match_date,
             clean_opponent_name(opponent),
             IF venue = <<"H">> THEN "H" ELSE "A",
             IF venue = <<"H">> THEN score[1].home ELSE score[1].away,
             IF venue = <<"H">> THEN score[1].away ELSE score[1].home,
             Some(competition),
             season,
             attendance,
             None,
             TransfermarktSOURCE_NAME))

\* _parse_match_row once the date, the venue, the opponent and the text of
\* the result are read off the cells: each check ends the row with None
Transfermarkt_match_of(match_date, venue, found, result_str, attendance, competition, season) ==
    IF match_date = None THEN None
    ELSE IF venue \notin {<<"H">>, <<"A">>} THEN None
    ELSE IF found = None \/ found = Some(<<>>) THEN None
    ELSE IF result_str = None \/ result_str = Some(<<>>) THEN None
    ELSE Transfermarkt_match(match_date[1], venue, found[1],
                             Transfermarkt_parse_score(result_str[1]),
                             attendance, competition, season)

\* the opponent of a row: the club link, else the fallback
Opponent(linked, cells) ==
    IF linked # None /\ linked # Some(<<>>) THEN linked ELSE FallbackOpponent(cells)

\* the attendance of a row
Attendance(cells, att_idx) ==
    IF att_idx # None /\ att_idx[1] < Len(cells)
    THEN Transfermarkt_parse_attendance(cells[att_idx[1] + 1].text)
    ELSE None

\* col_indices.get(key, default)
ColGet(idx, default) == IF idx = None THEN default ELSE idx[1]

\* TransfermarktScraper._parse_match_row: a Match, or None for a row it drops
Transfermarkt_parse_match_row(cells, cols, competition, season) ==
    IF ColGet(cols.date, 1) >= Len(cells) \/ ColGet(cols.venue, 3) >= Len(cells) THEN None
    ELSE Transfermarkt_match_of(
             Transfermarkt_parse_date(cells[ColGet(cols.date, 1) + 1].text),
             upper(strip(cells[ColGet(cols.venue, 3) + 1].text)),
             Opponent(LinkedOpponent(cells), cells),
             ResultText(cells, cols.result),
             Attendance(cells, cols.attendance),
             competition, season)

RECURSIVE Transfermarkt_rows(_, _, _, _)
\* for row in rows[1:]: ... matches.append(match)
Transfermarkt_rows(rows, cols, competition, season) ==
    IF rows = <<>> THEN <<>>
    ELSE LET cells == TdCells(Head(rows))
             match == IF Len(cells) < 5 THEN None
                      ELSE Transfermarkt_parse_match_row(cells, cols, competition, season) IN
         (IF match = None THEN <<>> ELSE <<match[1]>>)
           \o Transfermarkt_rows(Tail(rows), cols, competition, season)

\* TransfermarktScraper._parse_fixtures_table
parse_fixtures_table(table, competition, season) ==
    IF Len(table) < 2 THEN <<>>
    ELSE Transfermarkt_rows(Tail(table), col_indices(table[1]), competition, season)

RECURSIVE Transfermarkt_tables(_, _, _, _)
\* for i, table in enumerate(fixtures_tables): ...
Transfermarkt_tables(fixtures_tables, i, competitions, season) ==
    IF fixtures_tables = <<>> THEN <<>>
    ELSE parse_fixtures_table(Head(fixtures_tables),
                              IF i < Len(competitions) THEN competitions[i + 1] ELSE Unknown,
                              season)
           \o Transfermarkt_tables(Tail(fixtures_tables), i + 1, competitions, season)

\* TransfermarktScraper.scrape_season
Transfermarkt_scrape_season(start_year, response) ==
    IF ~response.ok THEN Returned(<<>>)
    ELSE Returned(Transfermarkt_tables(
             SelectSeq(response.body, is_fixtures_table), 0,
             extract_competitions_from_summary(response.body),
             format_season(start_year)))

---------------------------------------------------------------------------
(* The 11v11 adapter: scrapers/eleven_v_eleven.py.  It fetches nothing: the *)
(* page of a season is handed to it beforehand (set_html_for_season), and  *)
(* a response that is not ok stands for a season without a cached page.    *)
(* A table is its rows and whether they sit in a <tbody>.                  *)

ElevenSOURCE_NAME == "11v11"
ElevenMIN_SEASON == 1906
ElevenMAX_SEASON == 2026
ElevenTEAM_NAME == <<"S", "o", "u", "t", "h", "e", "n", "d", " ", "U", "n", "i", "t", "e", "d">>

\* ElevenVElevenScraper.COMPETITION_MAP
ElevenCOMPETITION_MAP == <<
    << <<"L", "e", "a", "g", "u", "e", " ", "D", "i", "v", "i", "s", "i", "o", "n", " ", "T", "h", "r", "e", "e">>,
       <<"T", "h", "i", "r", "d", " ", "D", "i", "v", "i", "s", "i", "o", "n">> >>,
    << <<"L", "e", "a", "g", "u", "e", " ", "D", "i", "v", "i", "s", "i", "o", "n", " ", "T", "h", "r", "e", "e", " ", "S", "o", "u", "t", "h">>,
       <<"T", "h", "i", "r", "d", " ", "D", "i", "v", "i", "s", "i", "o", "n">> >>,
    << <<"L", "e", "a", "g", "u", "e", " ", "D", "i", "v", "i", "s", "i", "o", "n", " ", "F", "o", "u", "r">>,
       <<"F", "o", "u", "r", "t", "h", " ", "D", "i", "v", "i", "s", "i", "o", "n">> >>,
    << <<"L", "e", "a", "g", "u", "e", " ", "D", "i", "v", "i", "s", "i", "o", "n", " ", "T", "w", "o">>,
       <<"S", "e", "c", "o", "n", "d", " ", "D", "i", "v", "i", "s", "i", "o", "n">> >>,
    << <<"L", "e", "a", "g", "u", "e", " ", "D", "i", "v", "i", "s", "i", "o", "n", " ", "O", "n", "e">>,
       <<"F", "i", "r", "s", "t", " ", "D", "i", "v", "i", "s", "i", "o", "n">> >>,
    << <<"F", "o", "o", "t", "b", "a", "l", "l", " ", "L", "e", "a", "g", "u", "e", " ", "T", "h", "i", "r", "d", " ", "D", "i", "v", "i", "s", "i", "o", "n">>,
       <<"T", "h", "i", "r", "d", " ", "D", "i", "v", "i", "s", "i", "o", "n">> >>,
    << <<"F", "o", "o", "t", "b", "a", "l", "l", " ", "L", "e", "a", "g", "u", "e", " ", "S", "e", "c", "o", "n", "d", " ", "D", "i", "v", "i", "s", "i", "o", "n">>,
       <<"S", "e", "c", "o", "n", "d", " ", "D", "i", "v", "i", "s", "i", "o", "n">> >>,
    << <<"F", "o", "o", "t", "b", "a", "l", "l", " ", "L", "e", "a", "g", "u", "e", " ", "F", "i", "r", "s", "t", " ", "D", "i", "v", "i", "s", "i", "o", "n">>,
       <<"F", "i", "r", "s", "t", " ", "D", "i", "v", "i", "s", "i", "o", "n">> >>,
    << <<"P", "r", "e", "m", "i", "e", "r", " ", "L", "e", "a", "g", "u", "e">>,
       <<"P", "r", "e", "m", "i", "e", "r", " ", "L", "e", "a", "g", "u", "e">> >>,
    << <<"C", "h", "a", "m", "p", "i", "o", "n", "s", "h", "i", "p">>,
       <<"C", "h", "a", "m", "p", "i", "o", "n", "s", "h", "i", "p">> >>,
    << <<"L", "e", "a", "g", "u", "e", " ", "O", "n", "e">>,
       <<"L", "e", "a", "g", "u", "e", " ", "O", "n", "e">> >>,
    << <<"L", "e", "a", "g", "u", "e", " ", "T", "w", "o">>,
       <<"L", "e", "a", "g", "u", "e", " ", "T", "w", "o">> >>,
    << <<"N", "a", "t", "i", "o", "n", "a", "l", " ", "L", "e", "a", "g", "u", "e">>,
       <<"N", "a", "t", "i", "o", "n", "a", "l", " ", "L", "e", "a", "g", "u", "e">> >>,
    << <<"C", "o", "n", "f", "e", "r", "e", "n", "c", "e", " ", "N", "a", "t", "i", "o", "n", "a", "l">>,
       <<"N", "a", "t", "i", "o", "n", "a", "l", " ", "L", "e", "a", "g", "u", "e">> >>,
    << <<"F", "A", " ", "C", "u", "p">>,
       <<"F", "A", " ", "C", "u", "p">> >>,
    << <<"L", "e", "a", "g", "u", "e", " ", "C", "u", "p">>,
       <<"L", "e", "a", "g", "u", "e", " ", "C", "u", "p">> >>,
    << <<"E", "F", "L", " ", "C", "u", "p">>,
       <<"L", "e", "a", "g", "u", "e", " ", "C", "u", "p">> >>,
    << <<"F", "o", "o", "t", "b", "a", "l", "l", " ", "L", "e", "a", "g", "u", "e", " ", "C", "u", "p">>,
       <<"L", "e", "a", "g", "u", "e", " ", "C", "u", "p">> >> >>

\* the month names %b takes, lower case, in calendar order
MonthNames == << <<"j", "a", "n">>, <<"f", "e", "b">>, <<"m", "a", "r">>, <<"a", "p", "r">>, <<"m", "a", "y">>, <<"j", "u", "n">>, <<"j", "u", "l">>, <<"a", "u", "g">>, <<"s", "e", "p">>, <<"o", "c", "t">>, <<"n", "o", "v">>, <<"d", "e", "c">> >>

\* the first place p starts at in t, or 0
Find(t, p) ==
    LET at == {i \in 1..(Len(t) - Len(p) + 1) : SubSeq(t, i, i + Len(p) - 1) = p} IN
    IF at = {} THEN 0 ELSE CHOOSE i \in at : \A j \in at : i <= j

\* t.split(p)[0] and, where p is in t, the text after its first occurrence
Before(t, p) == IF Find(t, p) = 0 THEN t ELSE SubSeq(t, 1, Find(t, p) - 1)
After(t, p) == Drop(t, Find(t, p) + Len(p) - 1)

\* ElevenVElevenScraper._parse_date: strptime(date_str.strip(), "%d %b %Y"),
\* None where it raises ValueError
Eleven_parse_date(date_str) ==
    LET t == strip(date_str)
        n1 == DigitRun(t)
        a == Drop(t, n1)
        b == Drop(a, SpaceRun(a))
        mon == lower(SubSeq(b, 1, 3))
        c == Drop(b, 3)
        yt == Drop(c, SpaceRun(c))
        d == DigitsVal(SubSeq(t, 1, n1))
        at == {k \in DOMAIN MonthNames : MonthNames[k] = mon}
        y == DigitsVal(yt) IN
    IF /\ n1 \in {1, 2} /\ SpaceRun(a) >= 1
       /\ Len(b) >= 3 /\ at # {}
       /\ SpaceRun(c) >= 1 /\ isdigit(yt) /\ Len(yt) = 4
       /\ y >= 1 /\ d >= 1 /\ d <= DaysInMonth(y, CHOOSE k \in at : TRUE)
    THEN Some(<<y, CHOOSE k \in at : TRUE, d>>)
    ELSE None

\* ElevenVElevenScraper._parse_score: the pair (home, away), None where it
\* raises ValueError
Eleven_parse_score(score_str) ==
    ScoreAtStart(strip(Before(score_str, <<"A", "g", "g", ":">>)), {"-"}, FALSE)

\* ElevenVElevenScraper._normalize_competition: COMPETITION_MAP.get(comp, comp)
Eleven_normalize_competition(comp) ==
    LET at == {k \in DOMAIN ElevenCOMPETITION_MAP : ElevenCOMPETITION_MAP[k][1] = strip(comp)} IN
    IF at = {} THEN strip(comp) ELSE ElevenCOMPETITION_MAP[CHOOSE k \in at : TRUE][2]

\* the Match of a row whose date, teams and score are read
Eleven_match(match_date, home_team, away_team, score, competition, season, link) ==
    LET is_home == Contains(home_team, ElevenTEAM_NAME) IN
    [AdapterMatch(
         match_date,
         IF is_home THEN away_team ELSE home_team,
         IF is_home THEN "H" ELSE "A",
         IF is_home THEN score.home ELSE score.away,
         IF is_home THEN score.away ELSE score.home,
         Some(Eleven_normalize_competition(competition)),
         season,
         None,
         None,
         ElevenSOURCE_NAME)
     EXCEPT !.source_match_id = link]

\* _parse_match_row once the cells are read: None where the date, the match
\* or the score does not parse (the exception is caught and logged)
Eleven_match_of(match_date, match_str, score, competition, season, link) ==
    IF match_date = None THEN None
    ELSE IF ~Contains(match_str, <<" ", "v", " ">>) THEN None
    ELSE IF score = None THEN None
    ELSE Some(Eleven_match(match_date[1],
                           strip(Before(match_str, <<" ", "v", " ">>)),
                           strip(Before(After(match_str, <<" ", "v", " ">>), <<" ", "v", " ">>)),
                           score[1], competition, season, link))

\* ElevenVElevenScraper._parse_match_row: a Match, or None for a row it drops
Eleven_parse_match_row(row, season) ==
    LET cells == TdCells(row) IN
    IF Len(cells) < 5 THEN None
    ELSE Eleven_match_of(Eleven_parse_date(cells[1].text),
                         cells[2].text,
                         Eleven_parse_score(cells[4].text),
                         cells[5].text,
                         season,
                         IF cells[2].links # <<>> THEN Some(cells[2].links[1].href) ELSE None)

RECURSIVE Eleven_rows(_, _)
\* for row in rows: ... matches.append(match)
Eleven_rows(rows, season) ==
    IF rows = <<>> THEN <<>>
    ELSE LET match == Eleven_parse_match_row(Head(rows), season) IN
         (IF match = None THEN <<>> ELSE <<match[1]>>) \o Eleven_rows(Tail(rows), season)

\* ElevenVElevenScraper.parse_html: the first table of the page, its rows
\* without the header row
parse_html(page, season) ==
    IF page = <<>> THEN <<>>
    ELSE IF page[1].tbody THEN Eleven_rows(page[1].rows, season)
    ELSE IF page[1].rows = <<>> THEN <<>>
    ELSE Eleven_rows(Tail(page[1].rows), season)

\* ElevenVElevenScraper.scrape_season
Eleven_scrape_season(start_year, response) ==
    IF ~response.ok THEN Returned(<<>>)
    ELSE Returned(parse_html(response.body, format_season(start_year)))

---------------------------------------------------------------------------
(* The responses the sites are taken to give: for each adapter a fetch that *)
(* fails, a page without a usable row and pages with rows.                 *)

\* statto: a competition row, the header, two results and a row without a date
StattoResultsTable == <<
    << Cell(<<"E", "n", "g", "l", "i", "s", "h", " ", "L", "e", "a", "g", "u", "e", " ", "O", "n", "e">>, <<>>) >>,
    << HeaderCell(<<"N", "o">>),
       HeaderCell(<<"D", "a", "t", "e">>),
       HeaderCell(<<"O", "p", "p", "o", "n", "e", "n", "t">>),
       HeaderCell(<<"V", "e", "n", "u", "e">>),
       HeaderCell(<<"R", "e", "s", "u", "l", "t">>),
       HeaderCell(<<"P", "o", "s">>) >>,
    << Cell(<<"1">>, <<>>),
       Cell(<<"2", "8", ".", "0", "8", ".", "1", "9", "9", "3">>, <<>>),
       Cell(<<"F", "u", "l", "h", "a", "m">>, <<Link(<<"/", "t", "e", "a", "m", "s", "/", "f", "u", "l", "h", "a", "m">>, <<"F", "u", "l", "h", "a", "m">>)>>),
       Cell(<<"H", "o", "m", "e">>, <<>>),
       Cell(<<"W", "2", "-", "0">>, <<>>),
       Cell(<<"3">>, <<>>) >>,
    << Cell(<<"2">>, <<>>),
       Cell(<<"0", "4", ".", "0", "9", ".", "1", "9", "9", "3">>, <<>>),
       Cell(<<"B", "a", "r", "n", "e", "t">>, <<Link(<<"/", "t", "e", "a", "m", "s", "/", "b", "a", "r", "n", "e", "t">>, <<"B", "a", "r", "n", "e", "t">>)>>),
       Cell(<<"A", "w", "a", "y">>, <<>>),
       Cell(<<"L", "0", "-", "1">>, <<>>),
       Cell(<<"9">>, <<>>) >>,
    << Cell(<<"3">>, <<>>),
       Cell(<<"t", "b", "c">>, <<>>),
       Cell(<<"E", "x", "e", "t", "e", "r">>, <<Link(<<"/", "t", "e", "a", "m", "s", "/", "e", "x", "e", "t", "e", "r">>, <<"E", "x", "e", "t", "e", "r">>)>>),
       Cell(<<"H", "o", "m", "e">>, <<>>),
       Cell(<<"W", "1", "-", "0">>, <<>>),
       Cell(<<>>, <<>>) >> >>

\* statto: a table whose only rows are the header and a row that is too short
StattoEmptyTable == <<
    << HeaderCell(<<"N", "o">>),
       HeaderCell(<<"D", "a", "t", "e">>),
       HeaderCell(<<"O", "p", "p", "o", "n", "e", "n", "t">>),
       HeaderCell(<<"V", "e", "n", "u", "e">>),
       HeaderCell(<<"R", "e", "s", "u", "l", "t">>),
       HeaderCell(<<"P", "o", "s">>) >>,
    << Cell(<<"1">>, <<>>),
       Cell(<<"2", "8", ".", "0", "8", ".", "1", "9", "9", "3">>, <<>>),
       Cell(<<"W", "2", "-", "0">>, <<>>) >> >>

StattoResponses == {FetchError, Fetched(<<StattoEmptyTable>>), Fetched(<<StattoResultsTable>>)}

\* transfermarkt: the summary table that names the competition
TransfermarktSummaryTable == <<
    << Cell(<<"O", "v", "e", "r", "a", "l", "l", " ", "b", "a", "l", "a", "n", "c", "e">>, <<>>) >>,
    << Cell(<<"L", "e", "a", "g", "u", "e", " ", "O", "n", "e">>, <<>>) >> >>

\* transfermarkt: a fixtures table with one result and a row without a venue
TransfermarktFixturesTable == <<
    << HeaderCell(<<"M", "a", "t", "c", "h", "d", "a", "y">>),
       HeaderCell(<<"D", "a", "t", "e">>),
       HeaderCell(<<"V", "e", "n", "u", "e">>),
       HeaderCell(<<"O", "p", "p", "o", "n", "e", "n", "t">>),
       HeaderCell(<<"R", "e", "s", "u", "l", "t">>),
       HeaderCell(<<"A", "t", "t", "e", "n", "d", "a", "n", "c", "e">>) >>,
    << Cell(<<"1">>, <<>>),
       Cell(<<"S", "a", "t", " ", "2", "8", "/", "0", "8", "/", "9", "3">>, <<>>),
       Cell(<<"H">>, <<>>),
       Cell(<<"F", "u", "l", "h", "a", "m", " ", "(", "3", ".", ")">>, <<Link(<<"/", "v", "e", "r", "e", "i", "n", "/", "9", "3", "1">>, <<"F", "u", "l", "h", "a", "m">>)>>),
       Cell(<<"2", ":", "0">>, <<>>),
       Cell(<<"5", ".", "0", "0", "0">>, <<>>) >>,
    << Cell(<<"2">>, <<>>),
       Cell(<<"S", "a", "t", " ", "0", "4", "/", "0", "9", "/", "9", "3">>, <<>>),
       Cell(<<>>, <<>>),
       Cell(<<"B", "a", "r", "n", "e", "t">>, <<Link(<<"/", "v", "e", "r", "e", "i", "n", "/", "9", "3", "2">>, <<"B", "a", "r", "n", "e", "t">>)>>),
       Cell(<<"0", ":", "1">>, <<>>),
       Cell(<<>>, <<>>) >> >>

TransfermarktResponses ==
    {FetchError, Fetched(<<TransfermarktSummaryTable, TransfermarktFixturesTable>>)}

\* football-data: a file of complete lines
FootballDataCsv == <<
    [Div |-> Some(<<"E", "2">>),
     Date |-> Some(<<"2", "8", "/", "0", "8", "/", "9", "3">>),
     HomeTeam |-> Some(<<"S", "o", "u", "t", "h", "e", "n", "d">>),
     AwayTeam |-> Some(<<"F", "u", "l", "h", "a", "m">>),
     FTHG |-> Some(<<"2">>),
     FTAG |-> Some(<<"0">>),
     Referee |-> Some(<<"S", "m", "i", "t", "h">>)],
    [Div |-> Some(<<"E", "2">>),
     Date |-> Some(<<"2", "8", "/", "0", "8", "/", "9", "3">>),
     HomeTeam |-> Some(<<"B", "a", "r", "n", "e", "t">>),
     AwayTeam |-> Some(<<"E", "x", "e", "t", "e", "r">>),
     FTHG |-> Some(<<"1">>),
     FTAG |-> Some(<<"1">>),
     Referee |-> Some(<<"J", "o", "n", "e", "s">>)],
    [Div |-> Some(<<"E", "2">>),
     Date |-> Some(<<"0", "4", "/", "0", "9", "/", "9", "3">>),
     HomeTeam |-> Some(<<"B", "a", "r", "n", "e", "t">>),
     AwayTeam |-> Some(<<"S", "o", "u", "t", "h", "e", "n", "d">>),
     FTHG |-> Some(<<"1">>),
     FTAG |-> Some(<<"0">>),
     Referee |-> Some(<<>>)] >>

\* football-data: a file whose last line stops after the home team
FootballDataCsvShortLine == <<
    [Div |-> Some(<<"E", "2">>),
     Date |-> Some(<<"2", "8", "/", "0", "8", "/", "9", "3">>),
     HomeTeam |-> Some(<<"S", "o", "u", "t", "h", "e", "n", "d">>),
     AwayTeam |-> Some(<<"F", "u", "l", "h", "a", "m">>),
     FTHG |-> Some(<<"2">>),
     FTAG |-> Some(<<"0">>),
     Referee |-> Some(<<"S", "m", "i", "t", "h">>)],
    [Div |-> Some(<<"E", "2">>),
     Date |-> Some(<<"0", "4", "/", "0", "9", "/", "9", "3">>),
     HomeTeam |-> Some(<<"B", "a", "r", "n", "e", "t">>),
     AwayTeam |-> None,
     FTHG |-> None,
     FTAG |-> None,
     Referee |-> None] >>

\* football-data: a file with Div as its last column, whose last line stops
\* before it
FootballDataCsvNoDiv == <<
    [Date |-> Some(<<"2", "8", "/", "0", "8", "/", "9", "3">>),
     HomeTeam |-> Some(<<"S", "o", "u", "t", "h", "e", "n", "d">>),
     AwayTeam |-> Some(<<"F", "u", "l", "h", "a", "m">>),
     FTHG |-> Some(<<"2">>),
     FTAG |-> Some(<<"0">>),
     Div |-> Some(<<"E", "2">>)],
    [Date |-> Some(<<"0", "4", "/", "0", "9", "/", "9", "3">>),
     HomeTeam |-> Some(<<"B", "a", "r", "n", "e", "t">>),
     AwayTeam |-> Some(<<"S", "o", "u", "t", "h", "e", "n", "d">>),
     FTHG |-> Some(<<"1">>),
     FTAG |-> Some(<<"0">>),
     Div |-> None] >>

FootballDataResponses ==
    {FetchError, Fetched(FootballDataCsv), Fetched(FootballDataCsvShortLine),
     Fetched(FootballDataCsvNoDiv)}

---------------------------------------------------------------------------
(* The records the store is called with *)

D1 == <<1993, 8, 28>>

\* (date, opposition, competition) of the fixture the merges are tried on, of
\* a second fixture of the same day, and of a record that has no competition
\* (a None where the schema wants a text)
Fulham == <<"F", "u", "l", "h", "a", "m">>
LeagueOne == <<"L", "e", "a", "g", "u", "e", " ", "O", "n", "e">>
FACup == <<"F", "A", " ", "C", "u", "p">>
K1 == <<D1, Fulham, Some(LeagueOne)>>
K2 == <<D1, Fulham, Some(FACup)>>
KNoCompetition == <<D1, Fulham, None>>

\* venue, goals_for, goals_against, season
CoreHome == <<"H", 2, 0, format_season(1993)>>
CoreAway == <<"A", 0, 1, format_season(1994)>>
Cores == {CoreHome, CoreAway}

Smith == <<"S", "m", "i", "t", "h">>
Jones == <<"J", "o", "n", "e", "s">>
Eastwood == <<"E", "a", "s", "t", "w", "o", "o", "d">>
Flahavan == <<"F", "l", "a", "h", "a", "v", "a", "n">>

\* the optional and tracking fields of a record: as the statto adapter builds
\* it, as the football-data adapter builds it, an enriched record, and a
\* record with empty values in place of absent ones
DetailStatto ==
    [attendance |-> None, referee |-> None, scorers |-> None, lineup |-> None,
     source |-> "statto", source_match_id |-> Some(isoformat(D1) \o <<"_">> \o Fulham), detail_fetched |-> FALSE]
DetailFootballData ==
    [attendance |-> Some(5000), referee |-> Some(Smith), scorers |-> None,
     lineup |-> None, source |-> "football-data", source_match_id |-> Some(<<"4", "2">>),
     detail_fetched |-> FALSE]
DetailEnriched ==
    [attendance |-> None, referee |-> Some(Jones), scorers |-> Some(<<Eastwood>>),
     lineup |-> Some(<<Flahavan, Eastwood>>), source |-> "",
     source_match_id |-> None, detail_fetched |-> TRUE]
DetailEmpty ==
    [attendance |-> None, referee |-> Some(<<>>), scorers |-> Some(<<>>),
     lineup |-> Some(<<>>), source |-> "", source_match_id |-> None,
     detail_fetched |-> FALSE]
Details == {DetailStatto, DetailFootballData, DetailEnriched, DetailEmpty}

\* Match(...): models/match.py
Match(identity, core, detail) ==
    [date            |-> identity[1],
     opposition      |-> identity[2],
     venue           |-> core[1],
     goals_for       |-> core[2],
     goals_against   |-> core[3],
     competition     |-> identity[3],
     season          |-> core[4]] @@ detail

MatchInputs ==
    {Match(K1, c, d) : c \in Cores, d \in Details}
      \cup {Match(K2, CoreHome, d) : d \in {DetailStatto, DetailFootballData}}
      \cup {Match(KNoCompetition, CoreHome, DetailStatto)}

---------------------------------------------------------------------------
(* The store's operations as actions *)

\* no function of the utilities or of a scraper has been called
NoCalc == [op |-> "none"]

NoCall == [op |-> "none"]

Call(op, m, table, out) ==
    [op |-> op, m |-> m, raised |-> out.raised, lastrowid |-> out.lastrowid,
     existed |-> Conflicts(table, MatchParams(m)) # {}]

InsertMatch(m) ==
    /\ seq < MaxSeq
    /\ LET out == insert_match(matches, seq, m) IN
        /\ matches' = out.matches
        /\ seq' = out.seq
        /\ last' = Call("insert", m, matches, out)
    /\ UNCHANGED <<coordVars, calc>>

UpsertMatch(m) ==
    /\ seq < MaxSeq
    /\ LET out == upsert_match(matches, seq, m) IN
        /\ matches' = out.matches
        /\ seq' = out.seq
        /\ last' = Call("upsert", m, matches, out)
    /\ UNCHANGED <<coordVars, calc>>

\* an empty database, and a controller nothing has been asked of
Init ==
    /\ matches = <<>>
    /\ seq = 0
    /\ last = NoCall
    /\ pc = "idle"
    /\ request = [entry |-> "none"]
    /\ year = 0
    /\ total = 0
    /\ scrapers_to_try = <<>>
    /\ pending = <<>>
    /\ count = 0
    /\ result = None
    /\ tried = <<>>
    /\ upserted = <<>>
    /\ before = <<>>
    /\ attempted = <<>>
    /\ counts = <<>>
    /\ calc = NoCalc

Next ==
    \/ \E m \in MatchInputs : InsertMatch(m)
    \/ \E m \in MatchInputs : UpsertMatch(m)

Spec == Init /\ [][Next]_vars

---------------------------------------------------------------------------
(* The coordinator: ScrapeController of main.py.  scrape_range calls       *)
(* scrape_season for each year; scrape_season picks its scrapers, invokes  *)
(* them in turn and upserts what the first non-empty answer holds.  An     *)
(* exception a scraper or the store raises is caught nowhere: it ends the  *)
(* call (pc = "raised").                                                   *)

\* ScrapeController.scrapers, in priority order
scrapers == <<StattoSOURCE_NAME, TransfermarktSOURCE_NAME, FootballDataSOURCE_NAME>>

MIN_SEASON(scraper) ==
    CASE scraper = StattoSOURCE_NAME -> StattoMIN_SEASON
      [] scraper = TransfermarktSOURCE_NAME -> TransfermarktMIN_SEASON
      [] scraper = FootballDataSOURCE_NAME -> FootballDataMIN_SEASON

MAX_SEASON(scraper) ==
    CASE scraper = StattoSOURCE_NAME -> StattoMAX_SEASON
      [] scraper = TransfermarktSOURCE_NAME -> TransfermarktMAX_SEASON
      [] scraper = FootballDataSOURCE_NAME -> FootballDataMAX_SEASON

\* a window closed at both ends: MAX_SEASON itself is taken
can_scrape_season_Closed(scraper, start_year) ==
    MIN_SEASON(scraper) <= start_year /\ start_year <= MAX_SEASON(scraper)

\* BaseScraper.can_scrape_season
can_scrape_season(scraper, start_year) ==
    MIN_SEASON(scraper) <= start_year /\ start_year < MAX_SEASON(scraper)

\* the keys of scraper_map
scraper_map == {FootballDataSOURCE_NAME, TransfermarktSOURCE_NAME, StattoSOURCE_NAME}

\* the list scrape_season iterates over with every scraper of self.scrapers
\* in it, whatever its window
scrapers_to_try_All(start_year, source) ==
    IF source # None /\ source # Some("")
    THEN IF source[1] \in scraper_map THEN <<source[1]>> ELSE <<>>
    ELSE scrapers

\* the list scrape_season iterates over: the scraper of an explicit source
\* (none for a source it does not know), else the scrapers whose window
\* holds the year, in priority order
scrapers_to_try_For(start_year, source) ==
    IF source # None /\ source # Some("")
    THEN IF source[1] \in scraper_map THEN <<source[1]>> ELSE <<>>
    ELSE SelectSeq(scrapers, LAMBDA scraper : can_scrape_season(scraper, start_year))

\* scraper.scrape_season(start_year), given what the site answers
scrape_season(scraper, start_year, response) ==
    CASE scraper = StattoSOURCE_NAME -> Statto_scrape_season(start_year, response)
      [] scraper = TransfermarktSOURCE_NAME -> Transfermarkt_scrape_season(start_year, response)
      [] scraper = FootballDataSOURCE_NAME -> FootballData_scrape_season(start_year, response)

Responses(scraper) ==
    CASE scraper = StattoSOURCE_NAME -> StattoResponses
      [] scraper = TransfermarktSOURCE_NAME -> TransfermarktResponses
      [] scraper = FootballDataSOURCE_NAME -> FootballDataResponses

\* the requests: years before, at the edges of and past the scrapers'
\* windows, no source, each known source and one that is not known
RequestYears == {StattoMIN_SEASON - 1, FootballDataMIN_SEASON - 1,
                 StattoMAX_SEASON - 1, TransfermarktMAX_SEASON - 1}

RequestSources ==
    {None, Some(StattoSOURCE_NAME), Some(TransfermarktSOURCE_NAME),
     Some(FootballDataSOURCE_NAME), Some("soccerbase")}

\* a call of controller.scrape_season(start_year, source)
ScrapeSeasonCall(start_year, source) ==
    /\ pc = "idle"
    /\ request' = [entry |-> "scrape_season", start_year |-> start_year,
                   end_year |-> start_year, source |-> source]
    /\ year' = start_year
    /\ attempted' = <<start_year>>
    /\ before' = matches
    /\ pc' = "scrape_season"
    /\ UNCHANGED <<storeVars, calc, total, scrapers_to_try, pending, count, result,
                   tried, upserted, counts>>

\* a call of controller.scrape_range(start_year, end_year, source): total = 0
ScrapeRangeCall(start_year, end_year, source) ==
    /\ pc = "idle"
    /\ request' = [entry |-> "scrape_range", start_year |-> start_year,
                   end_year |-> end_year, source |-> source]
    /\ year' = start_year
    /\ total' = 0
    /\ pc' = "for_year"
    /\ UNCHANGED <<storeVars, calc, scrapers_to_try, pending, count, result,
                   tried, upserted, before, attempted, counts>>

\* scrape_range: the loop has a year left and calls scrape_season for it
RangeNextYear ==
    /\ pc = "for_year"
    /\ year <= request.end_year
    /\ attempted' = Append(attempted, year)
    /\ before' = matches
    /\ pc' = "scrape_season"
    /\ UNCHANGED <<storeVars, calc, request, year, total, scrapers_to_try, pending, count,
                   result, tried, upserted, counts>>

\* scrape_range: the loop is over, return total
RangeReturn ==
    /\ pc = "for_year"
    /\ year > request.end_year
    /\ result' = Some(total)
    /\ pc' = "returned"
    /\ UNCHANGED <<storeVars, calc, request, year, total, scrapers_to_try, pending, count,
                   tried, upserted, before, attempted, counts>>

\* scrape_season: build scrapers_to_try; return 0 if it is empty
SelectScrapers ==
    /\ pc = "scrape_season"
    /\ LET list == scrapers_to_try_For(year, request.source) IN
        /\ scrapers_to_try' = list
        /\ pc' = IF list = <<>> THEN "season_return" ELSE "for_scraper"
    /\ count' = 0
    /\ tried' = <<>>
    /\ upserted' = <<>>
    /\ pending' = <<>>
    /\ UNCHANGED <<storeVars, calc, request, year, total, result, before, attempted, counts>>

\* what scrape_season does with what a scraper gave: nothing if it raised,
\* the inner loop if there are matches, the next scraper if there are none
Scraped(scraper, fetch_ok, got) ==
    /\ tried' = Append(tried, [scraper |-> scraper, fetch_ok |-> fetch_ok,
                               raised |-> got.raised, matches |-> got.matches])
    /\ pending' = got.matches
    /\ pc' = IF got.raised THEN "raised"
             ELSE IF got.matches # <<>> THEN "for_match"
             ELSE "for_scraper"

\* scrape_season: invoke the next scraper; go on to store what it gave, or
\* to the scraper after it if it gave nothing
TryScraper(scraper, response) ==
    /\ pc = "for_scraper"
    /\ scrapers_to_try # <<>>
    /\ scraper = Head(scrapers_to_try)
    /\ Scraped(scraper, response.ok, scrape_season(scraper, year, response))
    /\ scrapers_to_try' = Tail(scrapers_to_try)
    /\ UNCHANGED <<storeVars, calc, request, year, total, count, result, upserted, before,
                   attempted, counts>>

\* scrape_season: no scraper is left, return 0
NoMatchesFound ==
    /\ pc = "for_scraper"
    /\ scrapers_to_try = <<>>
    /\ count' = 0
    /\ pc' = "season_return"
    /\ UNCHANGED <<storeVars, calc, request, year, total, scrapers_to_try, pending, result,
                   tried, upserted, before, attempted, counts>>

\* what the inner loop does with the outcome of an upsert_match: nothing more
\* if it raised, else count += 1 and the next match
Upserted(match, out) ==
    /\ matches' = out.matches
    /\ seq' = out.seq
    /\ last' = Call("upsert", match, matches, out)
    /\ IF out.raised
       THEN pc' = "raised" /\ UNCHANGED <<pending, count, upserted>>
       ELSE /\ pending' = Tail(pending)
            /\ count' = count + 1
            /\ upserted' = Append(upserted, match)
            /\ pc' = "for_match"

\* scrape_season: self.db.upsert_match(match); count += 1
StoreMatch ==
    /\ pc = "for_match"
    /\ pending # <<>>
    /\ Upserted(Head(pending), upsert_match(matches, seq, Head(pending)))
    /\ UNCHANGED <<calc, request, year, total, scrapers_to_try, result, tried, before,
                   attempted, counts>>

\* scrape_season: every match is stored, return count
SeasonStored ==
    /\ pc = "for_match"
    /\ pending = <<>>
    /\ pc' = "season_return"
    /\ UNCHANGED <<storeVars, calc, request, year, total, scrapers_to_try, pending, count,
                   result, tried, upserted, before, attempted, counts>>

\* scrape_season returns count: to the caller, or to scrape_range, which
\* adds it to total and goes on to the next year
SeasonReturn ==
    /\ pc = "season_return"
    /\ IF request.entry = "scrape_season"
       THEN /\ result' = Some(count)
            /\ pc' = "returned"
            /\ UNCHANGED <<year, total, counts>>
       ELSE /\ total' = total + count
            /\ counts' = Append(counts, count)
            /\ year' = year + 1
            /\ pc' = "for_year"
            /\ UNCHANGED result
    /\ UNCHANGED <<storeVars, calc, request, scrapers_to_try, pending, count, tried,
                   upserted, before, attempted>>

NextCoord ==
    \/ \E y \in RequestYears, source \in RequestSources : ScrapeSeasonCall(y, source)
    \/ \E y \in RequestYears, span \in 1..MaxSpan, source \in RequestSources :
           ScrapeRangeCall(y, y + span, source)
    \/ RangeNextYear
    \/ RangeReturn
    \/ SelectScrapers
    \/ \E scraper \in scraper_map : \E response \in Responses(scraper) :
           TryScraper(scraper, response)
    \/ NoMatchesFound
    \/ StoreMatch
    \/ SeasonStored
    \/ SeasonReturn

SpecCoord == Init /\ [][NextCoord]_vars

---------------------------------------------------------------------------
(* The season calendar: the functions of utils/season_utils.py, each       *)
(* applied to inputs of a bounded set.  calc holds the last call.          *)

\* the start years format_season is given: below zero, of one, two, three
\* and four digits, and either side of a century
SeasonYears == {-5, -1, 0, 8, 9, 10, 98, 99, 100, 999, 1899, 1908, 1999, 2000, 2024, 9998}

\* the start years and the two digits of the texts of the form "S-dd"
TwoDigitStarts == {5, 99, 1900, 1920, 1950, 1998, 1999, 2023, 19999}
TwoDigitEnds == {0, 1, 21, 24, 49, 50, 99}

\* the start years and the end years of the texts of the form "S-EEEE"
FourDigitStarts == {1920, 1999}
FourDigitEnds == {1901, 1921, 2000}

\* the texts parse_season is given: the 2-digit form, the 4-digit form (an
\* end year before the start year among them), and texts that are neither
SeasonTexts ==
    {NatStr(s) \o <<"-">> \o ZeroPad(dd, 2) : s \in TwoDigitStarts, dd \in TwoDigitEnds}
      \cup {NatStr(s) \o <<"-">> \o ZeroPad(e, 4) : s \in FourDigitStarts, e \in FourDigitEnds}
      \cup {<<"1", "9", "9", "9">>, <<"1", "9", "9", "9", "-">>,
            <<"1", "9", "9", "9", "-", "a", "b">>, <<"1", "9", "9", "9", "-", "2">>,
            <<"2", "0", "2", "3", "-", "2", "4", "-", "2", "5">>}

\* the dates get_season_from_date is given: the first and the last day of
\* every month of a few years
SeasonDates ==
    {<<y, m, d>> : y \in {1, 1909, 1999, 2000, 2024}, m \in 1..12, d \in {1, 28}}
      \cup {<<y, m, DaysInMonth(y, m)>> : y \in {1999, 2000}, m \in 1..12}

\* format_season(start_year)
FormatSeason(start_year) ==
    /\ calc' = [op |-> "format_season", arg |-> start_year,
                out |-> format_season(start_year), start_year |-> None]
    /\ UNCHANGED <<storeVars, coordVars>>

\* parse_season(season) of a text of the inputs
ParseSeason(season) ==
    /\ calc' = [op |-> "parse_season", arg |-> season,
                out |-> parse_season(season), start_year |-> None]
    /\ UNCHANGED <<storeVars, coordVars>>

\* parse_season(format_season(start_year)): the text format_season has just
\* returned is parsed
ParseFormatted ==
    /\ calc.op = "format_season"
    /\ calc' = [op |-> "parse_season", arg |-> calc.out,
                out |-> parse_season(calc.out), start_year |-> Some(calc.arg)]
    /\ UNCHANGED <<storeVars, coordVars>>

\* get_season_from_date(match_date)
GetSeasonFromDate(match_date) ==
    /\ calc' = [op |-> "get_season_from_date", arg |-> match_date,
                out |-> get_season_from_date(match_date), start_year |-> None]
    /\ UNCHANGED <<storeVars, coordVars>>

NextSeason ==
    \/ \E start_year \in SeasonYears : FormatSeason(start_year)
    \/ \E season \in SeasonTexts : ParseSeason(season)
    \/ ParseFormatted
    \/ \E match_date \in SeasonDates : GetSeasonFromDate(match_date)

SpecSeason == Init /\ [][NextSeason]_vars

---------------------------------------------------------------------------
(* The adapters on their own: scrape_season of each adapter, applied to    *)
(* pages made of rows of a bounded set.  A row is a fixture as the site    *)
(* shows it, in the site's own layout and with the score in the order home *)
(* score, away score, whole or with a defect; calc holds the last call.    *)

\* the pages have this many rows at most
MaxRows == 2

\* the season the pages are of: the last one every window holds
FixtureSeason == StattoMAX_SEASON - 1

Barnet == <<"B", "a", "r", "n", "e", "t">>

\* the score pairs (home score, away score)
FixtureScores == {<<2, 0>>, <<1, 3>>}

\* the fixtures: at home to Fulham in August, away to Barnet in January
Fixtures ==
    {[date |-> IF v = "H" THEN <<FixtureSeason, 8, 6>> ELSE <<FixtureSeason + 1, 1, 14>>,
      opposition |-> IF v = "H" THEN Fulham ELSE Barnet,
      venue |-> v,
      home_score |-> s[1],
      away_score |-> s[2]] : v \in {"H", "A"}, s \in FixtureScores}

\* a row is whole, or its date is no date, or its score is no score, or it
\* stops short
RowKinds == {"ok", "bad_date", "bad_score", "short"}

RowSpecs == [fixture : Fixtures, kind : RowKinds]

Payloads == UNION {[1..n -> RowSpecs] : n \in 0..MaxRows}

\* DD<sep>MM<sep>YYYY
DateText(date, sep) ==
    ZeroPad(date[3], 2) \o <<sep>> \o ZeroPad(date[2], 2) \o <<sep>> \o NatStr(date[1])

\* DD Mon YYYY
DateTextMonth(date) ==
    ZeroPad(date[3], 2) \o <<" ", UpperChar(MonthNames[date[2]][1]), MonthNames[date[2]][2], MonthNames[date[2]][3], " ">> \o NatStr(date[1])

NoDate == <<"T", "B", "C">>
NoScore == <<"P", "-", "P">>

\* the date and the score a row shows
RowDate(r, text) == IF r.kind = "bad_date" THEN NoDate ELSE text
RowScore(r, sep) ==
    IF r.kind = "bad_score" THEN NoScore
    ELSE NatStr(r.fixture.home_score) \o <<sep>> \o NatStr(r.fixture.away_score)

\* W, D or L: the result as the tracked club sees it
RowLetter(r) ==
    LET for == IF r.fixture.venue = "H" THEN r.fixture.home_score ELSE r.fixture.away_score
        against == IF r.fixture.venue = "H" THEN r.fixture.away_score ELSE r.fixture.home_score IN
    IF for > against THEN "W" ELSE IF for = against THEN "D" ELSE "L"

\* the home side and the away side of a row, the tracked club under name
RowHome(r, name) == IF r.fixture.venue = "H" THEN name ELSE r.fixture.opposition
RowAway(r, name) == IF r.fixture.venue = "H" THEN r.fixture.opposition ELSE name

\* football-data: the dict of a line; a short line stops after HomeTeam
FootballDataRow(r) ==
    IF r.kind = "short"
    THEN [Div |-> Some(<<"E", "2">>),
          Date |-> Some(DateText(r.fixture.date, "/")),
          HomeTeam |-> Some(RowHome(r, TEAM_NAME)),
          AwayTeam |-> None, FTHG |-> None, FTAG |-> None, Referee |-> None]
    ELSE [Div |-> Some(<<"E", "2">>),
          Date |-> Some(RowDate(r, DateText(r.fixture.date, "/"))),
          HomeTeam |-> Some(RowHome(r, TEAM_NAME)),
          AwayTeam |-> Some(RowAway(r, TEAM_NAME)),
          FTHG |-> Some(IF r.kind = "bad_score" THEN <<"P">> ELSE NatStr(r.fixture.home_score)),
          FTAG |-> Some(IF r.kind = "bad_score" THEN <<"P">> ELSE NatStr(r.fixture.away_score)),
          Referee |-> Some(<<>>)]

FootballDataPage(rows) == [i \in DOMAIN rows |-> FootballDataRow(rows[i])]

\* statto: No, Date, Opponent, Venue, Result, Pos; a short row has three cells
StattoRow(r) ==
    IF r.kind = "short"
    THEN << Cell(<<"1">>, <<>>),
            Cell(DateText(r.fixture.date, "."), <<>>),
            Cell(<<RowLetter(r)>> \o RowScore(r, "-"), <<>>) >>
    ELSE << Cell(<<"1">>, <<>>),
            Cell(RowDate(r, DateText(r.fixture.date, ".")), <<>>),
            Cell(r.fixture.opposition,
                 <<Link(<<"/", "t", "e", "a", "m", "s", "/">> \o lower(r.fixture.opposition), r.fixture.opposition)>>),
            Cell(IF r.fixture.venue = "H" THEN <<"H", "o", "m", "e">> ELSE <<"A", "w", "a", "y">>, <<>>),
            Cell((IF r.kind = "bad_score" THEN <<>> ELSE <<RowLetter(r)>>) \o RowScore(r, "-"), <<>>),
            Cell(<<"3">>, <<>>) >>

\* one table: the competition row, the header, the rows
StattoPage(rows) ==
    << SubSeq(StattoResultsTable, 1, 2) \o [i \in DOMAIN rows |-> StattoRow(rows[i])] >>

\* transfermarkt: Matchday, Date, Venue, Opponent, Result, Attendance
TransfermarktRow(r) ==
    IF r.kind = "short"
    THEN << Cell(<<"1">>, <<>>),
            Cell(DateText(r.fixture.date, "/"), <<>>),
            Cell(<<r.fixture.venue>>, <<>>) >>
    ELSE << Cell(<<"1">>, <<>>),
            Cell(RowDate(r, DateText(r.fixture.date, "/")), <<>>),
            Cell(<<r.fixture.venue>>, <<>>),
            Cell(r.fixture.opposition \o <<" ", "(", "3", ".", ")">>,
                 <<Link(<<"/", "v", "e", "r", "e", "i", "n", "/", "9", "3", "1">>, r.fixture.opposition)>>),
            Cell(RowScore(r, ":"), <<>>),
            Cell(<<"5", ".", "0", "0", "0">>, <<>>) >>

\* the summary table, then the fixtures table: its header and the rows
TransfermarktPage(rows) ==
    << TransfermarktSummaryTable,
       <<Head(TransfermarktFixturesTable)>> \o [i \in DOMAIN rows |-> TransfermarktRow(rows[i])] >>

\* 11v11: date, "Home v Away", W/D/L, score, competition
ElevenRow(r) ==
    IF r.kind = "short"
    THEN << Cell(DateTextMonth(r.fixture.date), <<>>),
            Cell(RowHome(r, ElevenTEAM_NAME) \o <<" ", "v", " ">> \o RowAway(r, ElevenTEAM_NAME), <<>>),
            Cell(<<RowLetter(r)>>, <<>>) >>
    ELSE << Cell(RowDate(r, DateTextMonth(r.fixture.date)), <<>>),
            Cell(RowHome(r, ElevenTEAM_NAME) \o <<" ", "v", " ">> \o RowAway(r, ElevenTEAM_NAME),
                 <<Link(<<"/", "m", "a", "t", "c", "h", "e", "s", "/">> \o lower(r.fixture.opposition),
                        RowHome(r, ElevenTEAM_NAME) \o <<" ", "v", " ">> \o RowAway(r, ElevenTEAM_NAME))>>),
            Cell(<<RowLetter(r)>>, <<>>),
            Cell(RowScore(r, "-"), <<>>),
            Cell(LeagueOne, <<>>) >>

\* one table whose rows sit in a <tbody>
ElevenPage(rows) == << [tbody |-> TRUE, rows |-> [i \in DOMAIN rows |-> ElevenRow(rows[i])]] >>

\* a call of scrape_season of an adapter on the page of the rows; the calls
\* do not depend on one another, and a behaviour makes one
Scrape(scraper, rows, out) ==
    /\ calc = NoCalc
    /\ calc' = [op |-> "scrape_season", scraper |-> scraper, rows |-> rows, out |-> out]
    /\ UNCHANGED <<storeVars, coordVars>>

StattoScrape(rows) ==
    Scrape(StattoSOURCE_NAME, rows,
           Statto_scrape_season(FixtureSeason, Fetched(StattoPage(rows))))

TransfermarktScrape(rows) ==
    Scrape(TransfermarktSOURCE_NAME, rows,
           Transfermarkt_scrape_season(FixtureSeason, Fetched(TransfermarktPage(rows))))

FootballDataScrape(rows) ==
    Scrape(FootballDataSOURCE_NAME, rows,
           FootballData_scrape_season(FixtureSeason, Fetched(FootballDataPage(rows))))

ElevenScrape(rows) ==
    Scrape(ElevenSOURCE_NAME, rows,
           Eleven_scrape_season(FixtureSeason, Fetched(ElevenPage(rows))))

NextAdapters ==
    \/ \E rows \in Payloads : StattoScrape(rows)
    \/ \E rows \in Payloads : TransfermarktScrape(rows)
    \/ \E rows \in Payloads : FootballDataScrape(rows)
    \/ \E rows \in Payloads : ElevenScrape(rows)

SpecAdapters == Init /\ [][NextAdapters]_vars

---------------------------------------------------------------------------
(* The store's contract *)

Identity(m) == <<m.date, m.opposition, m.competition>>

\* the identities a table holds
Identities(table) == {Identity(row_to_match(table[i])) : i \in DOMAIN table}

\* the stored record of m's identity, as the queries return it
Stored(table, m) ==
    row_to_match(table[CHOOSE i \in Conflicts(table, MatchParams(m)) : TRUE])

\* an optional field of a record holds no value: None, "" or []
IsEmpty(f, v) ==
    CASE f = "attendance" -> v = None
      [] f \in {"referee", "source_match_id"} -> v = None \/ v = Some(<<>>)
      [] f \in {"scorers", "lineup"} -> ~Truthy(v)

\* the step is a successful upsert_match of a record whose identity was stored
MergeStep == last'.op = "upsert" /\ ~last'.raised /\ last'.existed /\ seq' = seq + 1

\* C1: no two stored records share (date, opposition, competition),
\* whatever inserts and upserts were made and whether they failed or not
C1_UniqueIdentity ==
    \A i, j \in DOMAIN matches :
        i # j => Identity(row_to_match(matches[i])) # Identity(row_to_match(matches[j]))

\* two records are stored, and the last call was an insert refused for its identity
C1_Witness ==
    /\ Len(matches) = 2
    /\ last.op = "insert" /\ last.raised /\ last.existed

\* C2: after upsert_match(m), a second upsert_match(m) leaves what the
\* queries return as it is, and raises exactly when the first did
C2_UpsertIdempotent ==
    last.op = "upsert" =>
        LET again == upsert_match(matches, seq, last.m) IN
        /\ get_all_matches(again.matches) = get_all_matches(matches)
        /\ again.raised = last.raised

\* an upsert has merged an enriched record into a stored one
C2_Witness ==
    /\ last.op = "upsert" /\ ~last.raised /\ last.existed
    /\ last.m.detail_fetched /\ Len(matches) = 2

\* C3: a merge leaves every optional field that was populated and comes in
\* empty or absent at its stored value
C3_NeverRegress ==
    [][MergeStep =>
        \A f \in OptionalFields :
            (~IsEmpty(f, Stored(matches, last'.m)[f]) /\ IsEmpty(f, last'.m[f]))
                => Stored(matches', last'.m)[f] = Stored(matches, last'.m)[f]]_vars

\* C4: a merge leaves venue, goals_for, goals_against and season at the
\* incoming values, and every optional field at the incoming value when
\* that is not empty
C4_MergeTakesIncoming ==
    (last.op = "upsert" /\ ~last.raised /\ last.existed) =>
        LET r == Stored(matches, last.m)
            m == last.m IN
        /\ r.venue = m.venue
        /\ r.goals_for = m.goals_for
        /\ r.goals_against = m.goals_against
        /\ r.season = m.season
        /\ \A f \in OptionalFields : ~IsEmpty(f, m[f]) => r[f] = m[f]

\* a merge has replaced the referee and the core fields of a stored record
C4_Witness ==
    /\ last.op = "upsert" /\ ~last.raised /\ last.existed
    /\ last.m.referee = Some(Jones) /\ last.m.venue = "A"
    /\ Stored(matches, last.m).attendance = Some(5000)

\* C5: a merge leaves detail_fetched at (stored OR incoming), and no call
\* takes a stored detail_fetched from true to false
C5_DetailFetchedOr ==
    [][/\ MergeStep =>
            Stored(matches', last'.m).detail_fetched
              = (Stored(matches, last'.m).detail_fetched \/ last'.m.detail_fetched)
       /\ \A i \in DOMAIN matches :
            row_to_match(matches[i]).detail_fetched
              => /\ i \in DOMAIN matches'
                 /\ Identity(row_to_match(matches'[i])) = Identity(row_to_match(matches[i]))
                 /\ row_to_match(matches'[i]).detail_fetched]_vars

\* a record whose detail was fetched has been merged with one whose was not
C5_Witness ==
    /\ last.op = "upsert" /\ ~last.raised /\ last.existed
    /\ ~last.m.detail_fetched
    /\ Stored(matches, last.m).detail_fetched

\* C6: a merge leaves source at the incoming source when that is not
\* empty, and as it was when it is
C6_SourceReplacedIfNonEmpty ==
    [][MergeStep =>
        Stored(matches', last'.m).source
          = IF last'.m.source # "" THEN last'.m.source
            ELSE Stored(matches, last'.m).source]_vars

\* a record with no source has been merged into one that has a source
C6_Witness ==
    /\ last.op = "upsert" /\ ~last.raised /\ last.existed
    /\ last.m.source = ""
    /\ Stored(matches, last.m).source = "football-data"

---------------------------------------------------------------------------
(* The coordinator's contract *)

\* a call of scrape_season has ended: it is about to return count, it has
\* returned it, or an exception has ended it
SeasonOver ==
    \/ pc \in {"season_return", "raised"}
    \/ pc = "returned" /\ request.entry = "scrape_season"

\* the scrapers whose window holds the year, in priority order
Eligible(start_year) ==
    SelectSeq(scrapers, LAMBDA scraper : can_scrape_season(scraper, start_year))

\* the scrapers invoked for this season, in the order of their invocation
Invoked == [i \in DOMAIN tried |-> tried[i].scraper]

\* the invocations that gave at least one record
Successes == {i \in DOMAIN tried : tried[i].matches # <<>>}

\* C7: in a scrape_season without an explicit source the candidates are
\* invoked in priority order, and once a candidate has returned at least
\* one record, that candidate's records, all of them and no others, are what
\* is upserted, and no later candidate is invoked.
C7_FirstSuccessWins ==
    (pc # "idle" /\ request.source = None)
      => /\ Invoked = SubSeq(Eligible(year), 1, Len(tried))
         /\ \A i \in Successes : i = Len(tried)
         /\ (SeasonOver /\ Successes # {})
              => upserted = tried[Len(tried)].matches

\* C8: when an earlier eligible candidate has returned no record and a
\* later one returns records, scrape_season stores the records of the later
\* one and returns their number; and a candidate is only ever invoked after
\* every candidate before it has returned no record.
C8_Fallback ==
    (pc # "idle" /\ request.source = None)
      => /\ \A i \in DOMAIN tried : \A j \in 1..(i - 1) :
                ~tried[j].raised /\ tried[j].matches = <<>>
         /\ (SeasonOver /\ Len(tried) >= 2 /\ Len(tried) \in Successes)
              => /\ pc # "raised"
                 /\ count = Len(tried[Len(tried)].matches)
                 /\ \A k \in DOMAIN tried[Len(tried)].matches :
                        Conflicts(matches, MatchParams(tried[Len(tried)].matches[k])) # {}

\* no adapter is eligible for the year of the season
NoneEligible == request.source = None /\ Eligible(year) = <<>>

\* every candidate has been invoked and has returned no record
AllReturnedZero ==
    /\ Invoked = scrapers_to_try_For(year, request.source)
    /\ \A i \in DOMAIN tried : ~tried[i].raised /\ tried[i].matches = <<>>

\* C9: when no adapter is eligible for the year, or every candidate has
\* returned no record, scrape_season raises nothing, returns 0 and leaves
\* the table as it found it.
C9_NothingFoundReturnsZero ==
    (SeasonOver /\ (NoneEligible \/ AllReturnedZero))
      => /\ pc # "raised"
         /\ count = 0
         /\ pc = "returned" => result = Some(0)
         /\ matches = before

\* in a range, a season whose two candidates both returned no record is
\* about to return 0 on a table that an earlier season has filled
C9_Witness ==
    /\ pc = "season_return"
    /\ Len(tried) >= 2
    /\ AllReturnedZero
    /\ count = 0
    /\ before # <<>>
    /\ matches = before

\* range(start_year, end_year + 1) as a list
YearsOf(start_year, end_year) ==
    [i \in 1..(end_year - start_year + 1) |-> start_year + i - 1]

RECURSIVE Sum(_)
Sum(list) == IF list = <<>> THEN 0 ELSE Head(list) + Sum(Tail(list))

\* C10: when a scrape_range is over, scrape_season has been called for
\* every year of the range, whatever the earlier years came to, and the
\* call has returned the sum of what those calls returned.
C10_EveryYearAttempted ==
    (request.entry = "scrape_range" /\ pc \in {"returned", "raised"})
      => /\ attempted = YearsOf(request.start_year, request.end_year)
         /\ Len(counts) = Len(attempted)
         /\ pc = "returned"
         /\ result = Some(Sum(counts))

\* the request names a source that scraper_map does not hold
UnknownSource ==
    /\ request.source # None
    /\ request.source # Some("")
    /\ request.source[1] \notin scraper_map

\* C11: a request for a source that does not exist stops at once: no
\* scraper is invoked, the table is not written, and a scrape_range calls
\* scrape_season for no year after the one that found the source unknown.
C11_UnknownSourceStops ==
    (pc # "idle" /\ UnknownSource)
      => /\ tried = <<>>
         /\ matches = before
         /\ Len(attempted) <= 1

\* a call of scrape_season has built its list of candidates
Selected == pc \in {"for_scraper", "for_match", "season_return", "raised"}

\* the candidates of the call: those invoked so far, then those still to try
Candidates == Invoked \o scrapers_to_try

\* C12: with an explicit source the candidates are exactly the one scraper
\* of that name; without one they are exactly the registered scrapers a with
\* a.MIN_SEASON <= year < a.MAX_SEASON, in the order statto, transfermarkt,
\* football-data.
C12_CandidateSelection ==
    Selected =>
      /\ (request.source # None /\ ~UnknownSource)
           => Candidates = <<request.source[1]>>
      /\ request.source = None
           => Candidates =
                SelectSeq(<<"statto", "transfermarkt", "football-data">>,
                          LAMBDA a : MIN_SEASON(a) <= year /\ year < MAX_SEASON(a))

\* the second year of a range is statto's MAX_SEASON: statto is left out,
\* transfermarkt and football-data are the candidates, in that order
C12_Witness ==
    /\ pc = "for_scraper"
    /\ request.source = None
    /\ year = StattoMAX_SEASON
    /\ tried = <<>>
    /\ scrapers_to_try = <<"transfermarkt", "football-data">>

\* the only candidate is the scraper the request names, although the year
\* is outside its window
C12_WitnessExplicit ==
    /\ pc = "for_scraper"
    /\ request.source = Some("statto")
    /\ ~can_scrape_season("statto", year)
    /\ scrapers_to_try = <<"statto">>

---------------------------------------------------------------------------
(* The season calendar's contract *)

\* parse_season has been applied to the text format_season gave for a year
RoundTrip == calc.op = "parse_season" /\ calc.start_year # None

\* C13: parse_season(format_season(y)) = (y, y + 1) for every integer y.
C13_RoundTrip ==
    RoundTrip => calc.out = Some(<<calc.start_year[1], calc.start_year[1] + 1>>)

\* C13, amended: parse_season(format_season(y)) = (y, y + 1) for every
\* integer y >= 0.
C13_RoundTripFromZero ==
    (RoundTrip /\ calc.start_year[1] >= 0)
      => calc.out = Some(<<calc.start_year[1], calc.start_year[1] + 1>>)

\* the round trip of a year whose season ends on two digits, "9-10", which
\* parse_season reads as the 2-digit form
C13_Witness ==
    /\ RoundTrip
    /\ calc.start_year = Some(9)
    /\ calc.arg = <<"9", "-", "1", "0">>
    /\ calc.out = Some(<<9, 10>>)

\* C14: parse_season of the 2-digit form "S-dd" returns (S, E) with
\* E = (S div 100) * 100 + dd, plus 100 when that is below S, so that
\* E >= S; of the 4-digit form it returns the two years as they are written.
C14_TwoDigitRollover ==
    calc.op = "parse_season" =>
      /\ \A s \in TwoDigitStarts, dd \in TwoDigitEnds :
            calc.arg = NatStr(s) \o <<"-">> \o ZeroPad(dd, 2) =>
              LET e == (s \div 100) * 100 + dd IN
              /\ calc.out = Some(<<s, IF e < s THEN e + 100 ELSE e>>)
              /\ calc.out[1][2] >= s
      /\ \A s \in FourDigitStarts, e \in FourDigitEnds :
            calc.arg = NatStr(s) \o <<"-">> \o ZeroPad(e, 4) =>
              calc.out = Some(<<s, e>>)

\* "1999-00" has been parsed: the end year is in the next century
C14_Witness ==
    /\ calc.op = "parse_season"
    /\ calc.arg = <<"1", "9", "9", "9", "-", "0", "0">>
    /\ calc.out = Some(<<1999, 2000>>)

\* the text "A-B" of two years
SeasonName(a, b) == IntStr(a) \o <<"-">> \o IntStr(b)

\* C15: get_season_from_date gives a date of July..December of year Y the
\* season "Y-(Y+1)" and a date of January..June of year Y the season
\* "(Y-1)-Y".
C15_SeasonOfDate ==
    calc.op = "get_season_from_date" =>
      LET Y == calc.arg[1]
          month == calc.arg[2] IN
      /\ month \in 7..12 => calc.out = SeasonName(Y, Y + 1)
      /\ month \in 1..6 => calc.out = SeasonName(Y - 1, Y)

\* the last day of June 2000 is of season 1999-2000, and July has been seen
\* to start a season
C15_Witness ==
    /\ calc.op = "get_season_from_date"
    /\ calc.arg = <<2000, 6, 30>>
    /\ calc.out = <<"1", "9", "9", "9", "-", "2", "0", "0", "0">>

---------------------------------------------------------------------------
(* The store's insert path *)

\* C20: insert_match of a record whose (date, opposition, competition) is
\* stored raises and leaves the table and the key counter as they were;
\* upsert_match of such a record raises nothing and adds no row.
C20_ConflictOnlyOnInsert ==
    [][/\ (last'.op = "insert" /\ last'.existed)
            => (last'.raised /\ matches' = matches /\ seq' = seq)
       /\ (last'.op = "upsert" /\ last'.existed)
            => (~last'.raised /\ Len(matches') = Len(matches))]_vars

\* insert_match has just been refused a record whose identity is stored,
\* after an upsert_match had merged into that row
C20_Witness ==
    /\ last.op = "insert"
    /\ last.existed
    /\ last.raised
    /\ Len(matches) = 1
    /\ seq = 2

---------------------------------------------------------------------------
(* The adapters' contract *)

\* scrape_season of an adapter has returned
AdapterReturned == calc.op = "scrape_season" /\ ~calc.out.raised

\* the adapters whose source_match_id is made of the date and the opposition
DateOpponentIds == {StattoSOURCE_NAME, TransfermarktSOURCE_NAME, FootballDataSOURCE_NAME}

\* C16: every record scrape_season of an adapter returns has the adapter's
\* SOURCE_NAME as its source, and for statto, transfermarkt and
\* football-data a source_match_id that is not empty and reads
\* "<ISO date>_<opposition>" with the record's own date and opposition.
C16_SourceAndMatchId ==
    AdapterReturned =>
      \A i \in DOMAIN calc.out.matches :
         LET match == calc.out.matches[i] IN
         /\ match.source = calc.scraper
         /\ calc.scraper \in DateOpponentIds =>
              /\ match.source_match_id # None
              /\ match.source_match_id[1] # <<>>
              /\ match.source_match_id[1] =
                   ZeroPad(match.date[1], 4) \o <<"-">> \o ZeroPad(match.date[2], 2) \o <<"-">>
                     \o ZeroPad(match.date[3], 2) \o <<"_">> \o match.opposition

\* statto has returned the away fixture at Barnet with the id
\* "2017-01-14_Barnet"
C16_Witness ==
    /\ AdapterReturned
    /\ calc.scraper = StattoSOURCE_NAME
    /\ Len(calc.out.matches) = 2
    /\ calc.out.matches[2].source = "statto"
    /\ calc.out.matches[2].source_match_id =
         Some(<<"2", "0", "1", "7", "-", "0", "1", "-", "1", "4", "_", "B", "a", "r", "n", "e", "t">>)

\* every row of the page is whole
AllWhole == \A i \in DOMAIN calc.rows : calc.rows[i].kind = "ok"

\* the record is the fixture seen from the tracked club: the venue, the
\* other side as opposition, the goals of the club's side as goals_for
Oriented(match, fixture) ==
    /\ match.venue = fixture.venue
    /\ match.opposition = fixture.opposition
    /\ match.venue = "H" =>
         match.goals_for = fixture.home_score /\ match.goals_against = fixture.away_score
    /\ match.venue = "A" =>
         match.goals_for = fixture.away_score /\ match.goals_against = fixture.home_score

\* C17: in every adapter (statto, transfermarkt, football-data, 11v11) a
\* record of a score pair (home score, away score) has goals_for = home
\* score and goals_against = away score when its venue is Home, goals_for =
\* away score and goals_against = home score when its venue is Away, and the
\* other side as its opposition.
C17_GoalOrientation ==
    (AdapterReturned /\ AllWhole) =>
      /\ Len(calc.out.matches) = Len(calc.rows)
      /\ \A i \in DOMAIN calc.out.matches :
            Oriented(calc.out.matches[i], calc.rows[i].fixture)

\* the fixtures of the whole rows of the page, in the order of the page
RECURSIVE WholeRows(_)
WholeRows(rows) ==
    IF rows = <<>> THEN <<>>
    ELSE (IF Head(rows).kind = "ok" THEN <<Head(rows).fixture>> ELSE <<>>)
           \o WholeRows(Tail(rows))

\* C18: whatever rows a page holds, scrape_season raises nothing and returns
\* exactly the records of the rows that are whole, in the order of the page;
\* a row that does not parse is left out.
C18_BadRowsSkipped ==
    calc.op = "scrape_season" =>
      /\ ~calc.out.raised
      /\ Len(calc.out.matches) = Len(WholeRows(calc.rows))
      /\ \A i \in DOMAIN calc.out.matches :
            /\ calc.out.matches[i].date = WholeRows(calc.rows)[i].date
            /\ calc.out.matches[i].opposition = WholeRows(calc.rows)[i].opposition
            /\ calc.out.matches[i].venue = WholeRows(calc.rows)[i].venue

---------------------------------------------------------------------------
(* The coordinator and a fetch that fails *)

\* this step is the invocation of a scraper whose fetch fails
FetchFails == Len(tried') = Len(tried) + 1 /\ ~tried'[Len(tried')].fetch_ok

\* C19: when the fetch of a candidate fails, the candidate gives no record,
\* no exception leaves scrape_season, and the coordinator goes on to the
\* next candidate as it does after an empty list: the table and count are
\* untouched and the loop is at the candidate after it.
C19_FetchFailureSwallowed ==
    [][FetchFails =>
         /\ ~tried'[Len(tried')].raised
         /\ tried'[Len(tried')].matches = <<>>
         /\ pc' = "for_scraper"
         /\ scrapers_to_try' = Tail(scrapers_to_try)
         /\ matches' = matches
         /\ count' = count]_vars

\* the fetch of the first candidate failed, and the records of the second
\* are being stored
C19_Witness ==
    /\ pc = "for_match"
    /\ Len(tried) = 2
    /\ ~tried[1].fetch_ok
    /\ tried[1].matches = <<>>
    /\ tried[2].fetch_ok
    /\ tried[2].matches # <<>>

---------------------------------------------------------------------------
(* The store's queries: records of three seasons are upserted in any      *)
(* order, and one query is then made of the table                          *)

LeagueWin ==
    Match(<<D1, Fulham, Some(LeagueOne)>>, <<"H", 3, 1, format_season(1993)>>, DetailStatto)

\* a record as the 11v11 adapter builds it from a row that has no link
LeagueLoss ==
    Match(<<<<1993, 8, 14>>, Barnet, Some(LeagueOne)>>, <<"A", 0, 2, format_season(1993)>>,
          [DetailStatto EXCEPT !.source = "11v11", !.source_match_id = None])

CupDraw ==
    Match(<<<<1993, 5, 1>>, Fulham, Some(FACup)>>, <<"N", 1, 1, format_season(1992)>>, DetailFootballData)

\* the detail of LeagueWin, with the score put right
LeagueWinEnriched ==
    Match(<<D1, Fulham, Some(LeagueOne)>>, <<"H", 2, 2, format_season(1993)>>, DetailEnriched)

NextLeagueWin ==
    Match(<<<<1994, 8, 20>>, Barnet, Some(LeagueOne)>>, <<"H", 1, 0, format_season(1994)>>, DetailStatto)

QueryInputs == {LeagueWin, LeagueLoss, CupDraw, LeagueWinEnriched, NextLeagueWin}

QuerySeasons == {format_season(y) : y \in 1991..1994}

QuerySources == {None, Some(""), Some("statto"), Some("11v11"), Some("football-data")}

StoreUpsert(m) ==
    /\ calc = NoCalc
    /\ UpsertMatch(m)

\* a query: what it was asked, what it returned and the table it leaves
Query(op, arg, out) ==
    /\ calc = NoCalc
    /\ calc' = [op |-> op, arg |-> arg, out |-> out]
    /\ UNCHANGED <<storeVars, coordVars>>

GetAllMatches == Query("get_all_matches", None, get_all_matches(matches))

GetMatchesBySeason(season) ==
    Query("get_matches_by_season", season, get_matches_by_season(matches, season))

GetMatchesNeedingEnrichment(source) ==
    Query("get_matches_needing_enrichment", source, get_matches_needing_enrichment(matches, source))

GetSeasonSummary == Query("get_season_summary", None, get_season_summary(matches))

NextQueries ==
    \/ \E m \in QueryInputs : StoreUpsert(m)
    \/ GetAllMatches
    \/ \E season \in QuerySeasons : GetMatchesBySeason(season)
    \/ \E source \in QuerySources : GetMatchesNeedingEnrichment(source)
    \/ GetSeasonSummary

SpecQueries == Init /\ [][NextQueries]_vars

---------------------------------------------------------------------------
(* The queries' contract *)

RECURSIVE Total(_, _)
\* the sum of f over the indices I
Total(I, f) ==
    IF I = {} THEN 0
    ELSE LET i == CHOOSE j \in I : TRUE IN f[i] + Total(I \ {i}, f)

\* the start year a season text names
StartYear(season) == parse_season(season)[1][1]

\* C21: get_season_summary returns one row per stored season, in ascending
\* season order; its wins, draws and losses are the numbers of the season's
\* records whose Match.result is W, D and L, they add up to matches, and
\* scored and conceded are the sums of goals_for and goals_against
C21_SeasonSummary ==
    calc.op = "get_season_summary" =>
        LET out == calc.out
            all == get_all_matches(matches) IN
        /\ {out[k].season : k \in DOMAIN out} = {all[i].season : i \in DOMAIN all}
        /\ \A k \in 1..(Len(out) - 1) : StartYear(out[k].season) < StartYear(out[k + 1].season)
        /\ \A k \in DOMAIN out :
            LET I == {i \in DOMAIN all : all[i].season = out[k].season} IN
            /\ out[k].matches = Cardinality(I)
            /\ out[k].wins = Cardinality({i \in I : Match_result(all[i]) = "W"})
            /\ out[k].draws = Cardinality({i \in I : Match_result(all[i]) = "D"})
            /\ out[k].losses = Cardinality({i \in I : Match_result(all[i]) = "L"})
            /\ out[k].wins + out[k].draws + out[k].losses = out[k].matches
            /\ out[k].scored = Total(I, [i \in I |-> all[i].goals_for])
            /\ out[k].conceded = Total(I, [i \in I |-> all[i].goals_against])

\* the summary of a table that holds a home win 3-1 and an away loss 0-2 of
\* 1993-1994 and a draw of the season before
C21_Witness ==
    /\ calc.op = "get_season_summary"
    /\ Len(calc.out) = 2
    /\ calc.out[1].draws = 1
    /\ calc.out[2] = [season |-> format_season(1993), matches |-> 2, wins |-> 1, draws |-> 0,
                      losses |-> 1, scored |-> 3, conceded |-> 3]


\* date a is not after date b
DateLeq(a, b) ==
    \/ a[1] < b[1]
    \/ a[1] = b[1] /\ a[2] < b[2]
    \/ a[1] = b[1] /\ a[2] = b[2] /\ a[3] <= b[3]

\* list holds each of the records of the set once and nothing else, in
\* non-decreasing date order
OrderedProjection(list, records) ==
    /\ Len(list) = Cardinality(records)
    /\ {list[k] : k \in DOMAIN list} = records
    /\ \A k \in 1..(Len(list) - 1) : DateLeq(list[k].date, list[k + 1].date)

\* the stored records, as Match objects
StoredRecords(table) == {row_to_match(table[i]) : i \in DOMAIN table}

\* C22: get_all_matches returns every stored record once in non-decreasing
\* date order, get_matches_by_season(s) returns the stored records of
\* season s once each in non-decreasing date order, and the table is the
\* same after either call as before it
C22_ReadOnlyOrderedProjections ==
    [][/\ calc'.op = "get_all_matches" =>
            /\ OrderedProjection(calc'.out, StoredRecords(matches))
            /\ storeVars' = storeVars
       /\ calc'.op = "get_matches_by_season" =>
            /\ OrderedProjection(calc'.out, {m \in StoredRecords(matches) : m.season = calc'.arg})
            /\ storeVars' = storeVars]_vars

\* a season's two records were stored the later one first, and the query
\* for the season has returned them the earlier one first
C22_Witness ==
    /\ calc.op = "get_matches_by_season"
    /\ Len(matches) = 3
    /\ Len(calc.out) = 2
    /\ calc.out[1] = row_to_match(matches[3])
    /\ calc.out[2] = row_to_match(matches[1])

\* C23: get_matches_needing_enrichment() returns the stored records whose
\* detail_fetched is false, get_matches_needing_enrichment(source) those of
\* them whose source is the given one, both in date order
C23_NeedingEnrichment ==
    calc.op = "get_matches_needing_enrichment" =>
        OrderedProjection(calc.out,
            {m \in StoredRecords(matches) :
                /\ ~m.detail_fetched
                /\ calc.arg # None => m.source = calc.arg[1]})

---------------------------------------------------------------------------
(* Re-running a range: scrape_range as a function of the table it starts  *)
(* from and of what the sites answer.  payload[year][scraper] is the       *)
(* response of the scraper's site for the year.                            *)

\* the body of "for scraper in scrapers_to_try": got is what the scraper
\* gave, rest what the scrapers after it give
FirstOf(got, rest) ==
    IF got.raised THEN Raised
    ELSE IF got.matches # <<>> THEN got
    ELSE rest

RECURSIVE FirstMatches(_, _, _)
\* scrape_season's loop over scrapers_to_try: the list it goes on to upsert
FirstMatches(list, start_year, answers) ==
    IF list = <<>> THEN Returned(<<>>)
    ELSE FirstOf(scrape_season(Head(list), start_year, answers[Head(list)]),
                 FirstMatches(Tail(list), start_year, answers))

RECURSIVE UpsertAll(_, _)
\* what "for match in matches: self.db.upsert_match(match)" leaves
UpsertOne(out, store, list) ==
    IF out.raised THEN [store EXCEPT !.raised = TRUE]
    ELSE UpsertAll([matches |-> out.matches, seq |-> out.seq, raised |-> FALSE], list)

UpsertAll(store, list) ==
    IF list = <<>> \/ store.raised THEN store
    ELSE UpsertOne(upsert_match(store.matches, store.seq, Head(list)), store, Tail(list))

RECURSIVE RangeUpserts(_, _, _, _)
\* the records scrape_range(start_year, end_year, source) hands to
\* upsert_match, in order, up to the year in which a scraper raises
RangeUpserts(start_year, end_year, source, payload) ==
    IF start_year > end_year THEN <<>>
    ELSE LET got == FirstMatches(scrapers_to_try_For(start_year, source), start_year,
                                 payload[start_year]) IN
         IF got.raised THEN <<>>
         ELSE got.matches \o RangeUpserts(start_year + 1, end_year, source, payload)

\* an empty database
EmptyStore == [matches |-> <<>>, seq |-> 0, raised |-> FALSE]

\* what the sites answer for one year: statto's fetch fails or gives its
\* page, and the other two sites give any of their answers
Answers ==
    {[s \in scraper_map |->
        IF s = StattoSOURCE_NAME THEN a
        ELSE IF s = TransfermarktSOURCE_NAME THEN b ELSE c] :
        a \in StattoResponses \ {Fetched(<<StattoEmptyTable>>)},
        b \in TransfermarktResponses,
        c \in FootballDataResponses \ {FetchError}}

\* the years of the ranges
RangeYears(start_year) == start_year..(start_year + MaxSpan)

\* a range scrape killed after `cut` upserts and run again from the start:
\* the table at the kill, the table the second run leaves, and the table a
\* run that is not killed leaves
Recovered(start_year, list, cut) ==
    [op |-> "recover", start_year |-> start_year, cut |-> cut, list |-> list,
     killed |-> UpsertAll(EmptyStore, SubSeq(list, 1, cut)),
     rerun |-> UpsertAll([UpsertAll(EmptyStore, SubSeq(list, 1, cut)) EXCEPT !.raised = FALSE], list),
     run |-> UpsertAll(EmptyStore, list),
     again |-> UpsertAll([UpsertAll(EmptyStore, list) EXCEPT !.raised = FALSE], list)]

Recover(start_year, list) ==
    /\ calc = NoCalc
    /\ \E cut \in 0..Len(list) : calc' = Recovered(start_year, list, cut)
    /\ UNCHANGED <<storeVars, coordVars>>

NextRecover ==
    \E y \in RequestYears : \E payload \in [RangeYears(y) -> Answers] :
        Recover(y, RangeUpserts(y, y + MaxSpan, None, payload))

SpecRecover == Init /\ [][NextRecover]_vars

\* C24: when a range scrape is killed after any number of its upserts, the
\* records upserted so far are stored; running the whole range again
\* against the same answers leaves what the queries return as a run that
\* was not killed leaves it, and ends as that run ends; and running a
\* completed range again changes nothing the queries return
C24_RerunRecovers ==
    calc.op = "recover" =>
        /\ \A i \in 1..calc.cut :
              ~calc.killed.raised => Identity(calc.list[i]) \in Identities(calc.killed.matches)
        /\ Identities(calc.killed.matches) \subseteq Identities(calc.rerun.matches)
        /\ get_all_matches(calc.rerun.matches) = get_all_matches(calc.run.matches)
        /\ get_season_summary(calc.rerun.matches) = get_season_summary(calc.run.matches)
        /\ calc.rerun.raised = calc.run.raised
        /\ get_all_matches(calc.again.matches) = get_all_matches(calc.run.matches)
        /\ calc.again.raised = calc.run.raised

\* a range of two seasons that upserts the same fixture in both was killed
\* between the two, and the second run has merged what the first had stored
C24_Witness ==
    /\ calc.op = "recover"
    /\ Len(calc.list) >= 3
    /\ calc.cut = 2
    /\ ~calc.run.raised
    /\ Len(calc.killed.matches) = 2
    /\ calc.rerun.seq > calc.run.seq
    /\ calc.run.seq > Len(calc.run.matches)


C26_UpsertReturnsRowId ==
    (last.op = "upsert" /\ ~last.raised) =>
        LET got == get_match(matches, last.lastrowid) IN
        /\ got # None
        /\ Identity(got[1]) = Identity(last.m)

---------------------------------------------------------------------------
(* Section headers of a statto page: the page is given as a list of items, *)
(* each of them a competition row, a single cell of digits, a result row,  *)
(* a row without a date, or the start of the page's next table             *)

MaxItems == 4

ItemKinds == {"cup", "league", "digits", "row", "bad", "table"}

ItemLists == UNION {[1..n -> ItemKinds] : n \in 1..MaxItems}

EnglishLeagueOne == <<"E", "n", "g", "l", "i", "s", "h", " ", "L", "e", "a", "g", "u", "e", " ", "O", "n", "e">>

\* the k-th row of the page: a result row carries the day k
ItemRow(kind, k) ==
    CASE kind = "cup" -> << Cell(FACup, <<>>) >>
      [] kind = "league" -> << HeaderCell(EnglishLeagueOne) >>
      [] kind = "digits" -> << Cell(<<"1", "9", "9", "3">>, <<>>) >>
      [] OTHER ->
          << Cell(NatStr(k), <<>>),
             Cell(IF kind = "bad" THEN <<"t", "b", "c">> ELSE DateText(<<1993, 8, k>>, "."), <<>>),
             Cell(Barnet, <<Link(<<"/", "t", "e", "a", "m", "s", "/">> \o lower(Barnet), Barnet)>>),
             Cell(<<"H", "o", "m", "e">>, <<>>),
             Cell(<<"W", "2", "-", "0">>, <<>>),
             Cell(<<"3">>, <<>>) >>

RECURSIVE ItemTables(_, _, _)
\* the tables of the page: tables are those closed so far and the open one
ItemTables(items, k, tables) ==
    IF k > Len(items) THEN tables
    ELSE IF items[k] = "table" THEN ItemTables(items, k + 1, Append(tables, <<>>))
    ELSE ItemTables(items, k + 1,
            [tables EXCEPT ![Len(tables)] = Append(tables[Len(tables)], ItemRow(items[k], k))])

ItemPage(items) == ItemTables(items, 1, << <<>> >>)

StattoScrapeSections(items) ==
    Scrape(StattoSOURCE_NAME, items,
           Statto_scrape_season(FixtureSeason, Fetched(ItemPage(items))))

NextSections == \E items \in ItemLists : StattoScrapeSections(items)

SpecSections == Init /\ [][NextSections]_vars

\* the competition of the last competition row before item k, Unknown if
\* there is none
RunningCompetition(items, k) ==
    LET headers == {j \in 1..(k - 1) : items[j] \in {"cup", "league"}} IN
    IF headers = {} THEN Unknown
    ELSE IF items[CHOOSE j \in headers : \A i \in headers : i <= j] = "cup" THEN FACup
    ELSE LeagueOne

\* the positions of the result rows of a page, in order
ResultRows(items) == SelectSeq([k \in DOMAIN items |-> k], LAMBDA k : items[k] = "row")

\* C27: the records of a statto page are those of its result rows, in
\* order, and each carries the normalized competition of the last
\* competition row before its row in the page, Unknown if there is none
C27_RunningCompetition ==
    calc.op = "scrape_season" =>
        LET found == calc.out.matches
            at == ResultRows(calc.rows) IN
        /\ ~calc.out.raised
        /\ Len(found) = Len(at)
        /\ \A n \in DOMAIN found :
            /\ found[n].date = <<1993, 8, at[n]>>
            /\ found[n].competition = Some(RunningCompetition(calc.rows, at[n]))

---------------------------------------------------------------------------
(* Competition labels: each adapter's _normalize_competition, applied to   *)
(* the aliases of all three tables as they are, in capitals and padded      *)
(* with blanks, and to a label no table knows                              *)

COMPETITION_MAP(scraper) ==
    CASE scraper = StattoSOURCE_NAME -> StattoCOMPETITION_MAP
      [] scraper = TransfermarktSOURCE_NAME -> TransfermarktCOMPETITION_MAP
      [] scraper = ElevenSOURCE_NAME -> ElevenCOMPETITION_MAP

Aliases(map) == {map[k][1] : k \in DOMAIN map}

EssexSeniorCup == <<"E", "s", "s", "e", "x", " ", "S", "e", "n", "i", "o", "r", " ", "C", "u", "p">>

Labels ==
    LET known == Aliases(StattoCOMPETITION_MAP) \cup Aliases(TransfermarktCOMPETITION_MAP)
                   \cup Aliases(ElevenCOMPETITION_MAP) \cup {EssexSeniorCup} IN
    known \cup {upper(t) : t \in known} \cup {<<" ">> \o t \o <<" ">> : t \in known}

Normalized(scraper, label, out) ==
    /\ calc = NoCalc
    /\ calc' = [op |-> "normalize_competition", scraper |-> scraper, label |-> label, out |-> out]
    /\ UNCHANGED <<storeVars, coordVars>>

StattoNormalize(label) ==
    Normalized(StattoSOURCE_NAME, label, Some(Statto_normalize_competition(label)))

TransfermarktNormalize(label) ==
    Normalized(TransfermarktSOURCE_NAME, label, Transfermarkt_normalize_competition(label))

ElevenNormalize(label) ==
    Normalized(ElevenSOURCE_NAME, label, Some(Eleven_normalize_competition(label)))

NextNormalize ==
    \/ \E label \in Labels : StattoNormalize(label)
    \/ \E label \in Labels : TransfermarktNormalize(label)
    \/ \E label \in Labels : ElevenNormalize(label)

SpecNormalize == Init /\ [][NextNormalize]_vars

\* C28: a label that is an alias of the adapter's table, whatever its case,
\* comes out as the canonical name of that alias; a label that holds an
\* alias comes out as a canonical name of the table; any other label comes
\* out as it is, trimmed
C28_CompetitionNormalization ==
    calc.op = "normalize_competition" =>
        LET map == COMPETITION_MAP(calc.scraper)
            t == strip(calc.label)
            exact == {k \in DOMAIN map : lower(map[k][1]) = lower(t)}
            held == {k \in DOMAIN map : Contains(lower(t), lower(map[k][1]))} IN
        IF exact # {} THEN \E k \in exact : calc.out = Some(map[k][2])
        ELSE IF held # {} THEN \E k \in DOMAIN map : calc.out = Some(map[k][2])
        ELSE calc.out = Some(t)


\* scrape_season is at work for a year of the range
AtWork == pc \in {"scrape_season", "for_scraper", "for_match", "season_return"}

\* C29: a scrape_range takes the years of its range in ascending order,
\* each once; the fetches and the upserts under way are those of the last
\* year begun, a year is begun only when the years before it are over,
\* and when the call is over every year of the range has been taken
C29_StrictlySequential ==
    (request.entry = "scrape_range" /\ pc # "idle") =>
        LET years == YearsOf(request.start_year, request.end_year) IN
        /\ Len(attempted) <= Len(years)
        /\ attempted = SubSeq(years, 1, Len(attempted))
        /\ AtWork =>
            /\ Len(attempted) = Len(counts) + 1
            /\ year = attempted[Len(attempted)]
            /\ pc # "scrape_season" =>
                  \A i \in DOMAIN upserted : upserted[i].season = format_season(year)
        /\ pc = "for_year" => Len(counts) = Len(attempted)
        /\ pc \in {"returned", "raised"} => attempted = years

---------------------------------------------------------------------------
(* Scores as the sites may write them: one fixture whose two goal counts   *)
(* are texts with and without a sign, scraped by the football-data and the *)
(* statto adapter for either of two years and stored by the coordinator's  *)
(* upserts                                                                 *)

ScoreTexts == {<<"0">>, <<"2">>, <<"-", "1">>, <<"+", "1">>, <<" ", "3">>, <<"x">>}

ScoreYears == {FixtureSeason, FixtureSeason + 1}

\* the CSV line of the fixture
ScoreCsvRow(venue, home_goals, away_goals) ==
    [Div |-> Some(<<"E", "2">>),
     Date |-> Some(DateText(<<FixtureSeason, 8, 6>>, "/")),
     HomeTeam |-> Some(IF venue = "H" THEN TEAM_NAME ELSE Fulham),
     AwayTeam |-> Some(IF venue = "H" THEN Fulham ELSE TEAM_NAME),
     FTHG |-> Some(home_goals),
     FTAG |-> Some(away_goals),
     Referee |-> Some(<<>>)]

\* the statto row of the fixture
ScoreStattoRow(venue, home_goals, away_goals) ==
    << Cell(<<"1">>, <<>>),
       Cell(DateText(<<FixtureSeason, 8, 6>>, "."), <<>>),
       Cell(Fulham, <<Link(<<"/", "t", "e", "a", "m", "s", "/">> \o lower(Fulham), Fulham)>>),
       Cell(IF venue = "H" THEN <<"H", "o", "m", "e">> ELSE <<"A", "w", "a", "y">>, <<>>),
       Cell(<<"W">> \o home_goals \o <<"-">> \o away_goals, <<>>),
       Cell(<<"3">>, <<>>) >>

\* scraper.scrape_season(start_year) and the upserts of what it returned
ScrapeAndStore(scraper, start_year, rows, out) ==
    /\ calc = NoCalc
    /\ calc' = [op |-> "scrape_season", scraper |-> scraper, start_year |-> start_year,
                rows |-> rows, out |-> out,
                stored |-> get_all_matches(UpsertAll(EmptyStore, out.matches).matches)]
    /\ UNCHANGED <<storeVars, coordVars>>

FootballDataScrapeScores(start_year, row) ==
    ScrapeAndStore(FootballDataSOURCE_NAME, start_year, <<row>>,
                   FootballData_scrape_season(start_year, Fetched(<<row>>)))

StattoScrapeScores(start_year, row) ==
    ScrapeAndStore(StattoSOURCE_NAME, start_year, <<row>>,
                   Statto_scrape_season(start_year, Fetched(<< <<row>> >>)))

NextScores ==
    \E y \in ScoreYears, venue \in {"H", "A"}, h \in ScoreTexts, a \in ScoreTexts :
        \/ FootballDataScrapeScores(y, ScoreCsvRow(venue, h, a))
        \/ StattoScrapeScores(y, ScoreStattoRow(venue, h, a))

SpecScores == Init /\ [][NextScores]_vars

\* a record is well-formed for the season of start_year
WellFormed(match, start_year) ==
    /\ match.goals_for >= 0
    /\ match.goals_against >= 0
    /\ match.venue \in {"H", "A", "N"}
    /\ match.season = format_season(start_year)

\* C30: every record scrape_season(start_year) returns, and every record
\* stored from it, has goals_for >= 0, goals_against >= 0, a venue of H, A
\* or N and the season format_season(start_year)
C30_WellFormedRecords ==
    calc.op = "scrape_season" =>
        /\ \A i \in DOMAIN calc.out.matches : WellFormed(calc.out.matches[i], calc.start_year)
        /\ \A i \in DOMAIN calc.stored : WellFormed(calc.stored[i], calc.start_year)

===========================================================================
